---- MODULE Spec2Model ----
(***************************************************************************)
(* HTTP authentication core of neon (src/ne_auth.c): one auth_session      *)
(* (server or proxy role) driven by the request hooks ah_create,           *)
(* ah_pre_send and ah_post_send, the registration entry points and         *)
(* ne_forget_auth.                                                         *)
(*                                                                         *)
(* C strings are sequences of one-character strings; a NULL char pointer   *)
(* is the one-element sequence NULL, which no C string equals.  An MD5     *)
(* context is the sequence of bytes absorbed so far; its ASCII digest is   *)
(* that sequence wrapped in the markers "md5(" and ")", so two digests are *)
(* equal exactly when the absorbed bytes are equal.                        *)
(***************************************************************************)
EXTENDS Integers, Sequences, FiniteSets, TLC

VARIABLES
    role,       \* "server" | "proxy": which auth_class the session uses
    https,      \* ne_get_scheme(sess) is "https"
    ahs_set,    \* ne_get_session_private(sess, id) != NULL
    sess,       \* the auth_session record
    req,        \* the current ne_request with its auth_request and response
    ret,        \* status the ah_post_send that just ran returned
    tried,      \* acceptor calls of the auth_challenge that just ran
    env,        \* what the environment of this run does (fixed by Init)
    reg_log,    \* history: every registration made, in order
    rdig_hist,  \* history: what last happened to the stored_rdig snapshot
    sends,      \* history: requests sent since the last challenge acceptance
    accepted,   \* history: kind of the challenge accepted last
    tok_hist,   \* history: what last happened to the cached gssapi_token
    nn_hist,    \* history: the nextnonce the last verification installed
    parse       \* the locals of a header parse loop in progress

vars == <<role, https, ahs_set, sess, req, ret, tried, env, reg_log,
          rdig_hist, sends, accepted, tok_hist, nn_hist, parse>>

----------------------------------------------------------------------------
(* Bounds of the model *)

MaxReg == 2          \* registrations made on the session
MaxAttempt == 2      \* challenges answered for one request
MaxSends == 2        \* requests sent without a new challenge acceptance
CredTries == 1       \* attempts for which callback cbA supplies credentials

----------------------------------------------------------------------------
(* C strings *)

NULL == <<"NULL">>

Digits == <<"0","1","2","3","4","5","6","7","8","9","a","b","c","d","e","f">>

\* tolower() over the letters the headers of the model use
ToLower(c) ==
    CASE c = "A" -> "a" [] c = "B" -> "b" [] c = "C" -> "c" [] c = "D" -> "d"
      [] c = "E" -> "e" [] c = "F" -> "f" [] c = "G" -> "g" [] c = "H" -> "h"
      [] c = "I" -> "i" [] c = "L" -> "l" [] c = "M" -> "m" [] c = "N" -> "n"
      [] c = "O" -> "o" [] c = "P" -> "p" [] c = "Q" -> "q" [] c = "R" -> "r"
      [] c = "S" -> "s" [] c = "T" -> "t" [] c = "U" -> "u" [] c = "X" -> "x"
      [] OTHER -> c

\* ne_strcasecmp(a, b) == 0
StrCaseEq(a, b) ==
    /\ Len(a) = Len(b)
    /\ \A i \in 1..Len(a) : ToLower(a[i]) = ToLower(b[i])

RECURSIVE ShaveLeft(_, _)
ShaveLeft(s, set) ==
    IF s # <<>> /\ Head(s) \in set THEN ShaveLeft(Tail(s), set) ELSE s

RECURSIVE ShaveRight(_, _)
ShaveRight(s, set) ==
    IF s # <<>> /\ s[Len(s)] \in set
    THEN ShaveRight(SubSeq(s, 1, Len(s) - 1), set) ELSE s

\* ne_shave(str, whitespace): strip the characters of set from both ends
ne_shave(s, set) == ShaveRight(ShaveLeft(s, set), set)

\* index of the first c in s, 0 when there is none
RECURSIVE IndexOf(_, _, _)
IndexOf(s, c, i) ==
    IF i > Len(s) THEN 0 ELSE IF s[i] = c THEN i ELSE IndexOf(s, c, i + 1)

\* repeated ne_token(&val, ','): the comma-separated pieces of s
RECURSIVE ne_token_all(_)
ne_token_all(s) ==
    LET k == IndexOf(s, ",", 1)
    IN  IF k = 0 THEN <<s>>
        ELSE <<SubSeq(s, 1, k - 1)>> \o ne_token_all(SubSeq(s, k + 1, Len(s)))

\* a slip in the format: "%8x", padded with blanks
Hex8_BlankPadded(n) ==
    [i \in 1..8 |-> IF i < 8 /\ n \div (16 ^ (8 - i)) = 0 THEN " "
                    ELSE Digits[((n \div (16 ^ (8 - i))) % 16) + 1]]

\* ne_snprintf(nc_value, 9, "%08x", n)
Hex8(n) == [i \in 1..8 |-> Digits[((n \div (16 ^ (8 - i))) % 16) + 1]]

HexDigitVal(c) ==
    LET lc == ToLower(c) IN CHOOSE d \in 0..15 : Digits[d + 1] = lc

IsHexDigit(c) == \E d \in 1..16 : Digits[d] = ToLower(c)

RECURSIVE HexPrefixVal(_, _)
HexPrefixVal(s, acc) ==
    IF s # <<>> /\ IsHexDigit(Head(s))
    THEN HexPrefixVal(Tail(s), acc * 16 + HexDigitVal(Head(s)))
    ELSE acc

\* sscanf(val, "%x", &n): ok is the conversion count being 1
sscanf_x(s) ==
    LET t == ShaveLeft(s, {" ", "\t"})
    IN  IF t # <<>> /\ IsHexDigit(Head(t))
        THEN [ok |-> TRUE, val |-> HexPrefixVal(t, 0)]
        ELSE [ok |-> FALSE, val |-> 0]

\* ne_concat of the pieces up to the first NULL argument (the NULL ends the
\* argument list)
RECURSIVE ne_concat(_)
ne_concat(parts) ==
    IF parts = <<>> \/ Head(parts) = NULL THEN <<>>
    ELSE Head(parts) \o ne_concat(Tail(parts))

----------------------------------------------------------------------------
(* Digest and codec primitives (ne_md5.h, ne_string.h) *)

\* ne_md5_finish_ascii of a context that absorbed ctx
ne_md5_finish_ascii(ctx) == <<"md5(">> \o ctx \o <<")">>

\* ne_base64 of the bytes s
ne_base64(s) == <<"b64(">> \o s \o <<")">>

\* the length ne_unbase64 returns for the text s: 0 unless s is a
\* non-empty multiple of four characters of the base64 alphabet
ne_unbase64(s) ==
    LET Base64Chars ==
          {"A","B","C","D","E","F","G","H","I","J","K","L","M","N","O","P",
           "Q","R","S","T","U","V","W","X","Y","Z","a","b","c","d","e","f",
           "g","h","i","j","k","l","m","n","o","p","q","r","s","t","u","v",
           "w","x","y","z","0","1","2","3","4","5","6","7","8","9","+","/","="}
    IN  IF \/ Len(s) = 0 \/ Len(s) % 4 # 0
           \/ \E i \in 1..Len(s) : s[i] \notin Base64Chars
        THEN 0
        ELSE (Len(s) \div 4) * 3
             - (IF s[Len(s)] = "=" THEN 1 ELSE 0)
             - (IF s[Len(s) - 1] = "=" THEN 1 ELSE 0)

----------------------------------------------------------------------------
(* Scheme registry *)

AUTH_FLAG_OPAQUE_PARAM == "OPAQUE_PARAM"
AUTH_FLAG_VERIFY_NON40x == "VERIFY_NON40x"

sBasic == <<"B","a","s","i","c">>
sDigest == <<"D","i","g","e","s","t">>
sNegotiate == <<"N","e","g","o","t","i","a","t","e">>

\* the table of the build env.build names: with HAVE_GSSAPI and without
\* HAVE_SSPI, or with HAVE_SSPI and without HAVE_GSSAPI; id is the
\* NE_AUTH_* bit, flags the set of AUTH_FLAG_* bits, verify whether the
\* verify function pointer is non-NULL
protocols ==
    << [id |-> "BASIC", strength |-> 10, name |-> sBasic,
        verify |-> FALSE, flags |-> {}],
       [id |-> "DIGEST", strength |-> 20, name |-> sDigest,
        verify |-> TRUE, flags |-> {}] >>
    \o (IF env.build = "HAVE_SSPI"
        THEN << [id |-> "NEGOTIATE", strength |-> 30,
                 name |-> <<"N","T","L","M">>, verify |-> FALSE,
                 flags |-> {AUTH_FLAG_OPAQUE_PARAM, AUTH_FLAG_VERIFY_NON40x}],
                [id |-> "NEGOTIATE", strength |-> 30, name |-> sNegotiate,
                 verify |-> FALSE,
                 flags |-> {AUTH_FLAG_OPAQUE_PARAM, AUTH_FLAG_VERIFY_NON40x}] >>
        ELSE << [id |-> "NEGOTIATE", strength |-> 30, name |-> sNegotiate,
                 verify |-> TRUE,
                 flags |-> {AUTH_FLAG_OPAQUE_PARAM, AUTH_FLAG_VERIFY_NON40x}] >>)

NoProtocol == 0

auth_alg_md5 == "md5"
auth_alg_md5_sess == "md5_sess"
auth_alg_unknown == "unknown"

auth_qop_none == "none"
auth_qop_auth == "auth"

NE_OK == "OK"
NE_ERROR == "ERROR"
NE_RETRY == "RETRY"
NE_AUTH == "AUTH"
NE_PROXYAUTH == "PROXYAUTH"

ah_server_class ==
    [req_hdr |-> "Authorization", resp_hdr |-> "WWW-Authenticate",
     resp_info_hdr |-> "Authentication-Info",
     status_code |-> 401, fail_code |-> NE_AUTH]

ah_proxy_class ==
    [req_hdr |-> "Proxy-Authorization", resp_hdr |-> "Proxy-Authenticate",
     resp_info_hdr |-> "Proxy-Authentication-Info",
     status_code |-> 407, fail_code |-> NE_PROXYAUTH]

spec_of(r) == IF r = "proxy" THEN ah_proxy_class ELSE ah_server_class

----------------------------------------------------------------------------
(* Session state *)

\* h_a1 of a calloc'ed session: 32 NUL bytes
ZeroHA1 == <<"nul*32">>

\* sess->gssctx is GSS_C_NO_CONTEXT or an established context, "gss_ctx"
GSS_C_NO_CONTEXT == "GSS_C_NO_CONTEXT"

\* the auth_session as ne_calloc leaves it, with the context of auth_register
NewSession(isproxy, ishttps) ==
    [context |-> IF ishttps
                 THEN (IF isproxy THEN "AUTH_CONNECT" ELSE "AUTH_NOTCONNECT")
                 ELSE "AUTH_ANY",
     protocol |-> NoProtocol,
     handlers |-> <<>>,
     username |-> <<>>,
     basic |-> NULL,
     realm |-> NULL,
     nonce |-> NULL,
     cnonce |-> NULL,
     opaque |-> NULL,
     qop |-> auth_qop_none,
     alg |-> auth_alg_md5,
     nonce_count |-> 0,
     h_a1 |-> ZeroHA1,
     stored_rdig |-> NULL,
     gssapi_token |-> NULL,
     gssctx |-> GSS_C_NO_CONTEXT,
     sspi_token |-> NULL,
     sspi_context |-> NULL]

\* a slip: the stored_rdig context not released
clean_session_KeepsRdig(s) ==
    [s EXCEPT !.basic = NULL, !.nonce = NULL, !.cnonce = NULL,
              !.opaque = NULL, !.realm = NULL]

clean_session(s) ==
    [s EXCEPT !.basic = NULL, !.nonce = NULL, !.cnonce = NULL,
              !.opaque = NULL, !.realm = NULL, !.stored_rdig = NULL,
              !.gssctx = GSS_C_NO_CONTEXT, !.gssapi_token = NULL,
              !.sspi_token = NULL, !.sspi_context = NULL]

\* the handler list after the append loop of auth_register: the walk stops
\* at the last node, and the store goes through the pointer to that node
AppendHandler(handlers, h) ==
    IF handlers = <<>> THEN <<h>>
    ELSE [handlers EXCEPT ![Len(handlers)] = h]

auth_register(s, protomask, creds, userdata) ==
    [s EXCEPT !.handlers =
        AppendHandler(s.handlers,
                      [protomask |-> protomask, creds |-> creds,
                       userdata |-> userdata])]

DefaultProtomask(isproxy, ishttps) ==
    {"BASIC", "DIGEST"} \cup
        (IF ishttps \/ isproxy THEN {"NEGOTIATE"} ELSE {})

----------------------------------------------------------------------------
(* The application's credential callbacks (ne_auth_creds).  cbA copies the *)
(* username and password its userdata holds, for the first CredTries       *)
(* attempts; cbB never has credentials.                                    *)

UserOf(userdata) ==
    IF userdata = "udA" THEN <<"j","o">> ELSE <<"a","l">>

PassOf(userdata) ==
    IF userdata = "udA" THEN <<"f","o","o">> ELSE <<"b","a","r">>

\* a slip: cbA supplies credentials at every attempt
creds_callback_Always(creds, userdata, realm, attempt, username) ==
    IF creds = "cbA"
    THEN [rc |-> 0, username |-> UserOf(userdata),
          password |-> PassOf(userdata)]
    ELSE [rc |-> 1, username |-> username, password |-> <<>>]

creds_callback(creds, userdata, realm, attempt, username) ==
    IF creds = "cbA" /\ attempt < CredTries
    THEN [rc |-> 0, username |-> UserOf(userdata),
          password |-> PassOf(userdata)]
    ELSE [rc |-> 1, username |-> username, password |-> <<>>]

get_credentials(s, attempt, chall) ==
    creds_callback(chall.handler.creds, chall.handler.userdata, s.realm,
                   attempt, s.username)

----------------------------------------------------------------------------
(* Challenge parsing: auth_challenge over the pairs tokenize() returns in  *)
(* challenge mode, each [key, val] with val = NULL for a bare token        *)

kRealm == <<"r","e","a","l","m">>
kNonce == <<"n","o","n","c","e">>
kOpaque == <<"o","p","a","q","u","e">>
kStale == <<"s","t","a","l","e">>
kAlgorithm == <<"a","l","g","o","r","i","t","h","m">>
kQop == <<"q","o","p">>
kNextnonce == <<"n","e","x","t","n","o","n","c","e">>
kRspauth == <<"r","s","p","a","u","t","h">>
kCnonce == <<"c","n","o","n","c","e">>
kNc == <<"n","c">>
vTrue == <<"t","r","u","e">>
vMd5 == <<"m","d","5">>
vMd5Sess == <<"m","d","5","-","s","e","s","s">>
vAuth == <<"a","u","t","h">>

\* the ne_calloc'ed struct auth_challenge with protocol and handler set
NewChallenge(proto, hdl) ==
    [protocol |-> proto, handler |-> hdl, realm |-> NULL, nonce |-> NULL,
     opaque |-> NULL, stale |-> FALSE, got_qop |-> FALSE,
     qop_auth |-> FALSE, alg |-> auth_alg_md5]

\* the handler/protocol search: handlers in chain order, and for each the
\* table in order; <<0, 0>> when no handler admits the scheme named key
ClaimProtocol(handlers, key) ==
    LET Admits(h, n) == /\ protocols[n].id \in handlers[h].protomask
                        /\ StrCaseEq(key, protocols[n].name)
        Hs == {h \in 1..Len(handlers) : \E n \in 1..Len(protocols) : Admits(h, n)}
    IN  IF Hs = {} THEN <<0, 0>>
        ELSE LET h == CHOOSE x \in Hs : \A y \in Hs : x <= y
                 n == CHOOSE x \in 1..Len(protocols) :
                        /\ Admits(h, x)
                        /\ \A y \in 1..Len(protocols) : Admits(h, y) => x <= y
             IN  <<h, n>>

\* a slip: the challenge linked at the tail, in header order
InsertPos_Tail(list, proto) == Len(list) + 1

\* a slip: the challenge linked before the first one that is not stronger
InsertPos_BeforeEqual(list, proto) ==
    LET NotStronger == {i \in 1..Len(list) :
                          protocols[proto].strength
                              >= protocols[list[i].protocol].strength}
    IN  IF NotStronger = {} THEN Len(list) + 1
        ELSE CHOOSE i \in NotStronger : \A j \in NotStronger : i <= j

\* position at which insert_challenge links a challenge of protocol proto
InsertPos(list, proto) ==
    LET Weaker == {i \in 1..Len(list) :
                     protocols[proto].strength > protocols[list[i].protocol].strength}
    IN  IF Weaker = {} THEN Len(list) + 1
        ELSE CHOOSE i \in Weaker : \A j \in Weaker : i <= j

insert_challenge(list, c) ==
    LET p == InsertPos(list, c.protocol)
    IN  SubSeq(list, 1, p - 1) \o <<c>> \o SubSeq(list, p, Len(list))

\* one key=value pair applied to the challenge c
ApplyParam(c, key, rawval) ==
    LET val == ne_shave(rawval, {"\"", "'"})
    IN  IF StrCaseEq(key, kRealm) THEN [c EXCEPT !.realm = val]
        ELSE IF StrCaseEq(key, kNonce) THEN [c EXCEPT !.nonce = val]
        ELSE IF StrCaseEq(key, kOpaque) THEN [c EXCEPT !.opaque = val]
        ELSE IF StrCaseEq(key, kStale)
             THEN [c EXCEPT !.stale = StrCaseEq(val, vTrue)]
        ELSE IF StrCaseEq(key, kAlgorithm)
             THEN [c EXCEPT !.alg =
                     IF StrCaseEq(val, vMd5) THEN auth_alg_md5
                     ELSE IF StrCaseEq(val, vMd5Sess) THEN auth_alg_md5_sess
                     ELSE auth_alg_unknown]
        ELSE IF StrCaseEq(key, kQop)
             THEN LET toks == ne_token_all(val)
                      hit == \E i \in 1..Len(toks) :
                                StrCaseEq(ne_shave(toks[i], {" ", "\t"}), vAuth)
                      qa == c.qop_auth \/ hit
                  IN  [c EXCEPT !.qop_auth = qa, !.got_qop = qa]
        ELSE c

\* whether the scheme name at tokens[i] was followed by a space and more
\* text: that text, up to the next comma, is the item tokens[i + 1]
HasTrailer(tokens, i) ==
    i < Len(tokens) /\ "trailer" \in DOMAIN tokens[i + 1]

\* a slip: a scheme no handler admits leaves chall where it was
ParseItem_KeepChall(tok, trailer, cur, list, handlers) ==
    IF tok.val = NULL
    THEN LET cl == ClaimProtocol(handlers, tok.key) IN
         IF cl[2] = 0
         THEN [cur |-> cur, list |-> list, took |-> FALSE]
         ELSE IF /\ AUTH_FLAG_OPAQUE_PARAM \in protocols[cl[2]].flags
                 /\ trailer # NULL
         THEN LET c == [NewChallenge(cl[2], handlers[cl[1]]) EXCEPT
                          !.opaque = ne_shave(trailer, {" ", "\t"})]
              IN  [cur |-> InsertPos(list, cl[2]),
                   list |-> insert_challenge(list, c), took |-> TRUE]
         ELSE LET c == NewChallenge(cl[2], handlers[cl[1]])
              IN  [cur |-> InsertPos(list, cl[2]),
                   list |-> insert_challenge(list, c), took |-> FALSE]
    ELSE IF cur = 0
    THEN [cur |-> cur, list |-> list, took |-> FALSE]
    ELSE [cur |-> cur,
          list |-> [list EXCEPT ![cur] = ApplyParam(list[cur], tok.key, tok.val)],
          took |-> FALSE]

\* the body of the parse loop for one item tok = [key, val]; cur is the
\* position in list of the challenge chall points to, 0 for NULL; trailer
\* is the text between a blank after the scheme name and the next comma,
\* NULL when the separator was not a blank; took reports that the trailer
\* was consumed as the opaque parameter
ParseItem(tok, trailer, cur, list, handlers) ==
    IF tok.val = NULL
    THEN LET cl == ClaimProtocol(handlers, tok.key) IN
         IF cl[2] = 0
         THEN [cur |-> 0, list |-> list, took |-> FALSE]
         ELSE IF /\ AUTH_FLAG_OPAQUE_PARAM \in protocols[cl[2]].flags
                 /\ trailer # NULL
         THEN LET c == [NewChallenge(cl[2], handlers[cl[1]]) EXCEPT
                          !.opaque = ne_shave(trailer, {" ", "\t"})]
              IN  [cur |-> InsertPos(list, cl[2]),
                   list |-> insert_challenge(list, c), took |-> TRUE]
         ELSE LET c == NewChallenge(cl[2], handlers[cl[1]])
              IN  [cur |-> InsertPos(list, cl[2]),
                   list |-> insert_challenge(list, c), took |-> FALSE]
    ELSE IF cur = 0
    THEN [cur |-> cur, list |-> list, took |-> FALSE]
    ELSE [cur |-> cur,
          list |-> [list EXCEPT ![cur] = ApplyParam(list[cur], tok.key, tok.val)],
          took |-> FALSE]

\* the parse loop from token i on
RECURSIVE ParseChallenges(_, _, _, _, _)
ParseChallenges(tokens, i, cur, list, handlers) ==
    IF i > Len(tokens) THEN list
    ELSE LET r == ParseItem(tokens[i],
                            IF HasTrailer(tokens, i) THEN tokens[i + 1].key
                            ELSE NULL,
                            cur, list, handlers)
         IN  ParseChallenges(tokens, IF r.took THEN i + 2 ELSE i + 1,
                             r.cur, r.list, handlers)

----------------------------------------------------------------------------
(* Challenge acceptors.  Each yields [ok, sess, called, cleaned]: whether  *)
(* the challenge was accepted, the session afterwards, whether the         *)
(* credential callback was invoked and whether clean_session ran.  The     *)
(* Basic and Digest acceptors add pwbuf, their local password[] at the     *)
(* return: "uninit" when nothing wrote it, "callback" as the credential   *)
(* callback left it, "zeroed" after memset(password, 0, sizeof password).  *)

basic_challenge(s, attempt, parms) ==
    IF parms.realm = NULL
    THEN [ok |-> FALSE, sess |-> s, called |-> FALSE, cleaned |-> FALSE,
          pwbuf |-> "uninit"]
    ELSE LET s1 == [clean_session(s) EXCEPT !.realm = parms.realm]
             cr == get_credentials(s1, attempt, parms)
             s2 == [s1 EXCEPT !.username = cr.username]
         IN  IF cr.rc # 0
             THEN [ok |-> FALSE, sess |-> s2, called |-> TRUE, cleaned |-> TRUE,
                   pwbuf |-> "callback"]
             ELSE [ok |-> TRUE,
                   sess |-> [s2 EXCEPT !.basic =
                       ne_base64(ne_concat(<<s2.username, <<":">>, cr.password>>))],
                   called |-> TRUE, cleaned |-> TRUE, pwbuf |-> "zeroed"]

\* H(A1) of digest_challenge for the password pw
DigestHA1(s, pw) ==
    LET tmp == s.username \o <<":">> \o s.realm \o <<":">> \o pw
    IN  IF s.alg = auth_alg_md5_sess
        THEN ne_md5_finish_ascii(ne_md5_finish_ascii(tmp) \o <<":">> \o s.nonce
                                 \o <<":">> \o s.cnonce)
        ELSE ne_md5_finish_ascii(tmp)

\* a slip: the reset left out
ResetNonceCount_Never(parms, nc) == nc

\* a slip: the count restarted at one
ResetNonceCount_One(parms, nc) == IF parms.got_qop THEN 1 ELSE nc

\* sess->nonce_count after digest_challenge took the challenge's qop:
\* "if (parms->got_qop) { sess->nonce_count = 0; ... }"
ResetNonceCount(parms, nc) == IF parms.got_qop THEN 0 ELSE nc

\* a slip: the algorithm of the challenge not looked at
DigestRejects_AnyAlgorithm(parms) ==
    parms.realm = NULL \/ parms.nonce = NULL

\* the three checks digest_challenge starts with
DigestRejects(parms) ==
    \/ parms.alg = auth_alg_unknown
    \/ (parms.alg = auth_alg_md5_sess /\ ~parms.qop_auth)
    \/ parms.realm = NULL \/ parms.nonce = NULL

\* cn is the string get_cnonce() returns
digest_challenge(s, attempt, parms, cn) ==
    IF DigestRejects(parms)
    THEN [ok |-> FALSE, sess |-> s, called |-> FALSE, cleaned |-> FALSE,
          pwbuf |-> "uninit"]
    ELSE LET s1 == IF ~parms.stale
                   THEN [clean_session(s) EXCEPT !.realm = parms.realm]
                   ELSE s
             cr == get_credentials(s1, attempt, parms)
             s2 == IF ~parms.stale THEN [s1 EXCEPT !.username = cr.username]
                   ELSE s1
         IN  IF ~parms.stale /\ cr.rc # 0
             THEN [ok |-> FALSE, sess |-> s2, called |-> TRUE, cleaned |-> TRUE,
                   pwbuf |-> "callback"]
             ELSE LET s3 == [s2 EXCEPT
                               !.alg = parms.alg,
                               !.nonce = parms.nonce,
                               !.cnonce = cn,
                               !.opaque = IF parms.opaque # NULL
                                          THEN parms.opaque ELSE @,
                               !.nonce_count = ResetNonceCount(parms, @),
                               !.qop = IF parms.got_qop THEN auth_qop_auth
                                       ELSE auth_qop_none]
                      s4 == IF ~parms.stale
                            THEN [s3 EXCEPT !.h_a1 = DigestHA1(s3, cr.password)]
                            ELSE s3
                  IN  [ok |-> TRUE, sess |-> s4, called |-> ~parms.stale,
                       cleaned |-> ~parms.stale,
                       pwbuf |-> IF parms.stale THEN "uninit" ELSE "zeroed"]

\* what gss_init_sec_context may answer: major is an error status
\* (GSS_ERROR), GSS_S_CONTINUE_NEEDED, GSS_S_COMPLETE or GSS_S_COMPLETE
\* with supplementary-information bits; output is the output token, empty
\* when output.length is 0
GssOutcomes ==
    [major : {"GSS_ERROR", "GSS_S_CONTINUE_NEEDED", "GSS_S_COMPLETE",
              "GSS_SUPPLEMENTARY"},
     output : {<<>>, <<"o","1">>, <<"o","2">>}]

\* continue_negotiate(sess, token) when gss_init_sec_context answers gss:
\* [rc, sess]
continue_negotiate(s, token, gss) ==
    IF token # NULL /\ ne_unbase64(token) = 0
    THEN [rc |-> -1, sess |-> s]
    ELSE LET s1 == IF token = NULL
                   THEN [s EXCEPT !.gssctx = GSS_C_NO_CONTEXT] ELSE s
         IN  IF gss.major = "GSS_ERROR"
             THEN [rc |-> -1, sess |-> s1]
             ELSE [rc |-> IF gss.major \in {"GSS_S_CONTINUE_NEEDED",
                                            "GSS_S_COMPLETE"}
                          THEN 0 ELSE -1,
                   sess |-> [s1 EXCEPT
                      !.gssctx = IF gss.major = "GSS_S_CONTINUE_NEEDED"
                                 THEN "gss_ctx" ELSE GSS_C_NO_CONTEXT,
                      !.gssapi_token = IF Len(gss.output) # 0
                                       THEN ne_base64(gss.output) ELSE @]]

negotiate_challenge(s, attempt, parms, gss) ==
    IF attempt = 0 \/ parms.opaque # NULL
    THEN LET r == continue_negotiate(s, parms.opaque, gss)
         IN  [ok |-> r.rc = 0, sess |-> r.sess, called |-> FALSE,
              cleaned |-> FALSE]
    ELSE [ok |-> FALSE, sess |-> s, called |-> FALSE, cleaned |-> FALSE]

\* sspi_challenge when the security provider answers gss: an error is
\* the failure of ne_sspi_create_context if the session has no context yet
\* and of ne_sspi_authenticate if it has one; otherwise the response
\* token is the encoded output
sspi_challenge(s, attempt, parms, gss) ==
    IF gss.major = "GSS_ERROR"
    THEN [ok |-> FALSE, sess |-> s, called |-> FALSE, cleaned |-> FALSE]
    ELSE [ok |-> TRUE,
          sess |-> [s EXCEPT !.sspi_context = "sspi_ctx",
                             !.sspi_token = ne_base64(gss.output)],
          called |-> FALSE, cleaned |-> FALSE]

\* protocols[p].challenge(sess, attempt, chall)
Accept(p, s, attempt, parms, cn, gss) ==
    IF protocols[p].id = "BASIC" THEN basic_challenge(s, attempt, parms)
    ELSE IF protocols[p].id = "DIGEST"
    THEN digest_challenge(s, attempt, parms, cn)
    ELSE IF env.build = "HAVE_SSPI"
    THEN sspi_challenge(s, attempt, parms, gss)
    ELSE negotiate_challenge(s, attempt, parms, gss)

\* the acceptance loop over the sorted challenge list from position i on;
\* st is [sess, tried, cleaned] so far
\* the state of the acceptance loop after the acceptor of chall returned r;
\* the entry added to tried keeps the challenge and tells whether the
\* acceptor left the credential fields of the session as they were
Tried(st, chall, r) ==
    [sess |-> IF r.ok THEN [r.sess EXCEPT !.protocol = chall.protocol]
              ELSE r.sess,
     tried |-> Append(st.tried,
                      [protocol |-> chall.protocol, handler |-> chall.handler,
                       called |-> r.called, ok |-> r.ok, parms |-> chall,
                       pwbuf |-> IF "pwbuf" \in DOMAIN r THEN r.pwbuf
                                 ELSE "none",
                       kept |-> /\ r.sess.realm = st.sess.realm
                                /\ r.sess.nonce = st.sess.nonce
                                /\ r.sess.cnonce = st.sess.cnonce
                                /\ r.sess.opaque = st.sess.opaque
                                /\ r.sess.username = st.sess.username
                                /\ r.sess.h_a1 = st.sess.h_a1
                                /\ r.sess.nonce_count = st.sess.nonce_count
                                /\ r.sess.stored_rdig = st.sess.stored_rdig]),
     cleaned |-> st.cleaned \/ r.cleaned]

RECURSIVE TryChallenges(_, _, _, _, _, _)
TryChallenges(list, i, st, attempt, cn, gss) ==
    IF i > Len(list) \/ st.sess.protocol # NoProtocol THEN st
    ELSE TryChallenges(list, i + 1,
             Tried(st, list[i],
                   Accept(list[i].protocol, st.sess, attempt, list[i], cn, gss)),
             attempt, cn, gss)

\* auth_challenge(sess, attempt, value): [sess, tried, cleaned]; the C
\* function returns zero exactly when sess.protocol is set afterwards
auth_challenge(s, attempt, tokens, cn, gss) ==
    LET challenges == ParseChallenges(tokens, 1, 0, <<>>, s.handlers)
    IN  TryChallenges(challenges, 1,
                      [sess |-> [s EXCEPT !.protocol = NoProtocol],
                       tried |-> <<>>, cleaned |-> FALSE],
                      attempt, cn, gss)

----------------------------------------------------------------------------
(* Credential headers.  A header value is kept by its fields; a field that *)
(* the concatenation never reached is NULL and crlf tells whether the      *)
(* value ends in CRLF.                                                     *)

NoHeader ==
    [scheme |-> NULL, cred |-> NULL, username |-> NULL, realm |-> NULL,
     nonce |-> NULL, uri |-> NULL, response |-> NULL, algorithm |-> NULL,
     opaque |-> NULL, cnonce |-> NULL, nc |-> NULL, qop |-> NULL,
     crlf |-> FALSE]

\* ne_concat("Basic ", sess->basic, "\r\n", NULL): a NULL sess->basic ends
\* the argument list
request_basic(s) ==
    [NoHeader EXCEPT !.scheme = sBasic, !.cred = s.basic,
                     !.crlf = (s.basic # NULL)]

\* a slip: the increment left out
NextNonceCount_NoIncrement(s) == s.nonce_count

\* sess->nonce_count after the first statement of request_digest
NextNonceCount(s) ==
    IF s.qop # auth_qop_none THEN s.nonce_count + 1 ELSE s.nonce_count

\* request_digest: [crash, sess, value]; crash is strlen() of a NULL
\* sess->nonce or sess->cnonce
request_digest(s, areq) ==
    IF s.nonce = NULL \/ (s.qop # auth_qop_none /\ s.cnonce = NULL)
    THEN [crash |-> TRUE,
          sess |-> [s EXCEPT !.nonce_count = NextNonceCount(s)],
          value |-> NoHeader]
    ELSE LET withqop == s.qop # auth_qop_none
             nc == NextNonceCount(s)
             nc_value == Hex8(nc)
             a2_md5_ascii ==
                 ne_md5_finish_ascii(areq.method \o <<":">> \o areq.uri)
             rdig0 == s.h_a1 \o <<":">> \o s.nonce \o <<":">>
             rdig1 == rdig0 \o nc_value \o <<":">> \o s.cnonce \o <<":">>
             rdig == IF withqop
                     THEN rdig1 \o vAuth \o <<":">> \o a2_md5_ascii
                     ELSE rdig0 \o a2_md5_ascii
             full == s.realm # NULL
             hdr == [NoHeader EXCEPT
                       !.scheme = sDigest,
                       !.username = s.username,
                       !.realm = s.realm,
                       !.nonce = IF full THEN s.nonce ELSE NULL,
                       !.uri = IF full THEN areq.uri ELSE NULL,
                       !.response = IF full THEN ne_md5_finish_ascii(rdig)
                                    ELSE NULL,
                       !.algorithm = IF ~full THEN NULL
                                     ELSE IF s.alg = auth_alg_md5
                                          THEN <<"M","D","5">>
                                          ELSE <<"M","D","5","-","s","e","s","s">>,
                       !.opaque = s.opaque,
                       !.cnonce = IF withqop THEN s.cnonce ELSE NULL,
                       !.nc = IF withqop THEN nc_value ELSE NULL,
                       !.qop = IF withqop THEN vAuth ELSE NULL,
                       !.crlf = TRUE]
         IN  [crash |-> FALSE,
              sess |-> [s EXCEPT !.nonce_count = nc,
                                 !.stored_rdig = IF withqop THEN rdig1 ELSE @],
              value |-> hdr]

\* a slip: a header made of the scheme name when no token is cached
request_negotiate_Bare(s) ==
    [NoHeader EXCEPT !.scheme = sNegotiate, !.cred = s.gssapi_token,
                     !.crlf = (s.gssapi_token # NULL)]

\* request_negotiate: the header when a token is cached, else NULL
request_negotiate(s) ==
    IF s.gssapi_token # NULL
    THEN [NoHeader EXCEPT !.scheme = sNegotiate, !.cred = s.gssapi_token,
                          !.crlf = TRUE]
    ELSE NoHeader

\* ne_concat(sess->protocol->name, " ", sess->sspi_token, "\r\n", NULL)
request_sspi(s) ==
    [NoHeader EXCEPT !.scheme = protocols[s.protocol].name,
                     !.cred = s.sspi_token, !.crlf = (s.sspi_token # NULL)]

\* protocols[p].response(sess, req)
Respond(p, s, areq) ==
    IF protocols[p].id = "BASIC"
    THEN [crash |-> FALSE, sess |-> s, value |-> request_basic(s)]
    ELSE IF protocols[p].id = "DIGEST"
    THEN request_digest(s, areq)
    ELSE IF env.build = "HAVE_SSPI"
    THEN [crash |-> FALSE, sess |-> s, value |-> request_sspi(s)]
    ELSE [crash |-> FALSE, sess |-> s, value |-> request_negotiate(s)]

----------------------------------------------------------------------------
(* Authentication-Info verification *)

\* the locals of verify_digest_response after the parse loop over the
\* pairs tokenize() returns in param mode; loc holds them so far
RECURSIVE ParseInfo(_, _, _)
ParseInfo(tokens, i, loc) ==
    IF i > Len(tokens) THEN loc
    ELSE LET key == tokens[i].key
             val == ne_shave(tokens[i].val, {"\""})
             sc == sscanf_x(val)
             nxt ==
               IF StrCaseEq(key, kQop)
               THEN [loc EXCEPT !.qop_value = val,
                                !.qop = IF StrCaseEq(val, vAuth)
                                        THEN auth_qop_auth ELSE auth_qop_none]
               ELSE IF StrCaseEq(key, kNextnonce) THEN [loc EXCEPT !.nextnonce = val]
               ELSE IF StrCaseEq(key, kRspauth) THEN [loc EXCEPT !.rspauth = val]
               ELSE IF StrCaseEq(key, kCnonce) THEN [loc EXCEPT !.cnonce = val]
               ELSE IF StrCaseEq(key, kNc)
                    THEN [loc EXCEPT !.nc = val,
                                     !.nonce_count = IF sc.ok THEN sc.val ELSE @]
               ELSE loc
         IN  ParseInfo(tokens, i + 1, nxt)

\* the response-digest the verifier computes from the snapshot
ResponseDigest(stored_rdig, qop_value, uri) ==
    ne_md5_finish_ascii(stored_rdig \o qop_value \o <<":">>
                        \o ne_md5_finish_ascii(<<":">> \o uri))

\* verify_digest_response after its parse loop left the locals loc:
\* [crash, ret, sess, consumed]; crash is strcmp() with a NULL sess->cnonce
\* or an MD5 update of a NULL stored_rdig.  In verify_digest_response,
\* garbage is the value the uninitialised local nonce_count holds.
VerifyParsed(areq, s, loc) ==
    LET s1 == IF loc.nextnonce # NULL THEN [s EXCEPT !.nonce = loc.nextnonce]
              ELSE s
        out(r) == [crash |-> FALSE, ret |-> r, sess |-> s1, consumed |-> FALSE]
    IN  IF loc.qop = auth_qop_none THEN out(NE_OK)
        ELSE IF loc.rspauth = NULL \/ loc.cnonce = NULL \/ loc.nc = NULL
             THEN out(NE_ERROR)
        ELSE IF s.cnonce = NULL
             THEN [crash |-> TRUE, ret |-> NE_ERROR, sess |-> s,
                   consumed |-> FALSE]
        ELSE IF loc.cnonce # s.cnonce THEN out(NE_ERROR)
        ELSE IF loc.nonce_count # s.nonce_count THEN out(NE_ERROR)
        ELSE IF s.stored_rdig = NULL
             THEN [crash |-> TRUE, ret |-> NE_ERROR, sess |-> s,
                   consumed |-> FALSE]
        ELSE [crash |-> FALSE,
              ret |-> IF StrCaseEq(ResponseDigest(s.stored_rdig, loc.qop_value,
                                                  areq.uri),
                                   loc.rspauth)
                      THEN NE_OK ELSE NE_ERROR,
              sess |-> [s1 EXCEPT !.stored_rdig = NULL],
              consumed |-> TRUE]

\* the locals of verify_digest_response once the header is parsed
InfoLocals(tokens, garbage) ==
    ParseInfo(tokens, 1,
              [qop |-> auth_qop_none, qop_value |-> NULL,
               nextnonce |-> NULL, rspauth |-> NULL, cnonce |-> NULL,
               nc |-> NULL, nonce_count |-> garbage])

verify_digest_response(areq, s, tokens, garbage) ==
    VerifyParsed(areq, s, InfoLocals(tokens, garbage))

\* verify_negotiate_response on the header whose first word is
\* tokens[1].key: [crash, ret, sess, consumed]; crash is the header without
\* any blank, where strchr() returns NULL and ptr is dereferenced
verify_negotiate_response(s, tokens, gss) ==
    IF ~HasTrailer(tokens, 1)
    THEN [crash |-> TRUE, ret |-> NE_ERROR, sess |-> s, consumed |-> FALSE]
    ELSE IF \/ Len(tokens[1].key) > Len(sNegotiate)
            \/ SubSeq(sNegotiate, 1, Len(tokens[1].key)) # tokens[1].key
    THEN [crash |-> FALSE, ret |-> NE_ERROR, sess |-> s, consumed |-> FALSE]
    ELSE IF Len(tokens[2].key) = 0
    THEN [crash |-> FALSE, ret |-> NE_OK, sess |-> s, consumed |-> FALSE]
    ELSE LET blank == IndexOf(tokens[2].key, " ", 1)
             ptr == IF blank = 0 THEN tokens[2].key
                    ELSE SubSeq(tokens[2].key, 1, blank - 1)
             r == continue_negotiate(s, ptr, gss)
         IN  [crash |-> FALSE, ret |-> IF r.rc # 0 THEN NE_ERROR ELSE NE_OK,
              sess |-> r.sess, consumed |-> FALSE]

\* protocols[p].verify(areq, sess, value)
Verify(p, areq, s, tokens, garbage, gss) ==
    IF protocols[p].id = "DIGEST"
    THEN verify_digest_response(areq, s, tokens, garbage)
    ELSE verify_negotiate_response(s, tokens, gss)

----------------------------------------------------------------------------
(* Requests and responses *)

mGET == <<"G","E","T">>
mCONNECT == <<"C","O","N","N","E","C","T">>
uRoot == <<"/">>

\* a response header: absent, or present with the pairs tokenize() yields
Absent == [present |-> FALSE, toks |-> <<>>]
Present(toks) == [present |-> TRUE, toks |-> toks]

NoResponse == [code |-> 0, www |-> Absent, proxy |-> Absent, info |-> Absent]

\* ne_get_response_header(req, name)
ne_get_response_header(resp, name) ==
    IF name = "WWW-Authenticate" THEN resp.www
    ELSE IF name = "Proxy-Authenticate" THEN resp.proxy
    ELSE resp.info

\* retries counts the post-send hooks of the request that returned
\* NE_RETRY, stale tells whether a response to it carried stale=true
NoRequest ==
    [pc |-> "idle", areq |-> FALSE, method |-> mGET, uri |-> uRoot,
     attempt |-> 0, out |-> NoHeader, resp |-> NoResponse,
     retries |-> 0, stale |-> FALSE]

\* ah_create attaching an auth_request to every request
ah_create_Always(s, method) == TRUE

\* ah_create: whether an auth_request is attached to the request
ah_create(s, method) ==
    LET is_connect == (method = mCONNECT)
    IN  \/ s.context = "AUTH_ANY"
        \/ (is_connect /\ s.context = "AUTH_CONNECT")
        \/ (~is_connect /\ s.context = "AUTH_NOTCONNECT")

\* ah_pre_send: [crash, sess, value]
ah_pre_send(s, rq) ==
    IF s.protocol # NoProtocol /\ rq.areq
    THEN Respond(s.protocol, s, rq)
    ELSE [crash |-> FALSE, sess |-> s, value |-> NoHeader]

\* what a call of ah_post_send did: the status returned, the session and
\* attempt counter afterwards, the acceptors tried, the branch taken and
\* whether clean_session ran or the stored_rdig snapshot was consumed
Untouched(s, rq) ==
    [crash |-> FALSE, ret |-> NE_OK, sess |-> s, attempt |-> rq.attempt,
     tried |-> <<>>, branch |-> "none", cleaned |-> FALSE, consumed |-> FALSE]

\* Verified releasing the session's credential state when the verifier
\* reports an error
Verified_ClearsOnError(rq, v, b) ==
    [crash |-> v.crash, ret |-> v.ret,
     sess |-> IF v.ret = NE_ERROR THEN clean_session(v.sess) ELSE v.sess,
     attempt |-> rq.attempt, tried |-> <<>>, branch |-> b,
     cleaned |-> v.ret = NE_ERROR, consumed |-> v.consumed]

\* Verified counting the response as one more challenge
Verified_CountsAttempt(rq, v, b) ==
    [crash |-> v.crash, ret |-> v.ret, sess |-> v.sess,
     attempt |-> rq.attempt + 1, tried |-> <<>>, branch |-> b,
     cleaned |-> FALSE, consumed |-> v.consumed]

Verified(rq, v, b) ==
    [crash |-> v.crash, ret |-> v.ret, sess |-> v.sess, attempt |-> rq.attempt,
     tried |-> <<>>, branch |-> b, cleaned |-> FALSE, consumed |-> v.consumed]

\* Challenged without the clean_session of the failure path
Challenged_NoClean(rq, cls, r) ==
    [crash |-> FALSE,
     ret |-> IF r.sess.protocol # NoProtocol THEN NE_RETRY ELSE cls.fail_code,
     sess |-> r.sess,
     attempt |-> rq.attempt + 1, tried |-> r.tried, branch |-> "challenge",
     cleaned |-> r.cleaned, consumed |-> FALSE]

\* Challenged returning the fail code whatever auth_challenge returned
Challenged_NeverRetry(rq, cls, r) ==
    [crash |-> FALSE,
     ret |-> cls.fail_code,
     sess |-> IF r.sess.protocol # NoProtocol THEN r.sess
              ELSE clean_session(r.sess),
     attempt |-> rq.attempt + 1, tried |-> r.tried, branch |-> "challenge",
     cleaned |-> r.cleaned \/ r.sess.protocol = NoProtocol,
     consumed |-> FALSE]

\* r is what auth_challenge(sess, areq->attempt++, auth_hdr) left
Challenged(rq, cls, r) ==
    [crash |-> FALSE,
     ret |-> IF r.sess.protocol # NoProtocol THEN NE_RETRY ELSE cls.fail_code,
     sess |-> IF r.sess.protocol # NoProtocol THEN r.sess
              ELSE clean_session(r.sess),
     attempt |-> rq.attempt + 1, tried |-> r.tried, branch |-> "challenge",
     cleaned |-> r.cleaned \/ r.sess.protocol = NoProtocol,
     consumed |-> FALSE]

\* ah_post_send without the 401-to-CONNECT case
WwwFallback_Never(s, rq, cls) == FALSE

\* the 401-to-CONNECT case of ah_post_send
WwwFallback(s, rq, cls) ==
    /\ s.context = "AUTH_CONNECT"
    /\ rq.resp.code = 401
    /\ ~ne_get_response_header(rq.resp, cls.resp_hdr).present

AuthHdr(s, rq, cls) ==
    IF WwwFallback(s, rq, cls)
    THEN ne_get_response_header(rq.resp, "WWW-Authenticate")
    ELSE ne_get_response_header(rq.resp, cls.resp_hdr)

AuthInfoHdr(s, rq, cls) ==
    IF WwwFallback(s, rq, cls) THEN Absent
    ELSE ne_get_response_header(rq.resp, cls.resp_info_hdr)

\* the branches of ah_post_send once auth_hdr and auth_info_hdr are fetched
PostSendBranches(s, rq, cls, cn, garbage, gss, auth_hdr, auth_info_hdr) ==
    IF /\ auth_info_hdr.present /\ s.protocol # NoProtocol
       /\ protocols[s.protocol].verify
       /\ AUTH_FLAG_VERIFY_NON40x \notin protocols[s.protocol].flags
    THEN Verified(rq, Verify(s.protocol, rq, s, auth_info_hdr.toks, garbage, gss),
                  "verify")
    ELSE IF /\ s.protocol # NoProtocol
            /\ protocols[s.protocol].flags # {}
            /\ (rq.resp.code \div 100) \in {2, 3}
            /\ auth_hdr.present
    THEN IF protocols[s.protocol].verify
         THEN Verified(rq, Verify(s.protocol, rq, s, auth_hdr.toks, garbage, gss),
                       "verify_non40x")
         ELSE [Untouched(s, rq) EXCEPT !.crash = TRUE, !.branch = "verify_non40x"]
    ELSE IF /\ (\/ rq.resp.code = cls.status_code
                \/ (rq.resp.code = 401 /\ s.context = "AUTH_CONNECT"))
            /\ auth_hdr.present
    THEN Challenged(rq, cls, auth_challenge(s, rq.attempt, auth_hdr.toks, cn, gss))
    ELSE Untouched(s, rq)

\* a slip: the cached token kept across the response
ForgetToken_Keep(s) == s

\* "whatever happens: forget the GSSAPI token cached thus far"
ForgetToken(s) == [s EXCEPT !.gssapi_token = NULL]

\* ah_post_send for the response rq.resp; cn is what get_cnonce() would
\* return, garbage what the verifier's uninitialised local holds and gss
\* what gss_init_sec_context would answer
ah_post_send(s, rq, cls, cn, garbage, gss) ==
    IF ~rq.areq THEN Untouched(s, rq)
    ELSE PostSendBranches(ForgetToken(s), rq, cls, cn, garbage, gss,
                          AuthHdr(s, rq, cls), AuthInfoHdr(s, rq, cls))

----------------------------------------------------------------------------
(* The environment: what the application registers and what the server or  *)
(* proxy answers                                                           *)

Bare(k) == [key |-> k, val |-> NULL]
KV(k, v) == [key |-> k, val |-> v]
Q(s) == <<"\"">> \o s \o <<"\"">>

vX == <<"x">>
vAbc == <<"a","b","c">>
vDef == <<"d","e","f">>
vOp == <<"o","p">>
vDeadbeef == <<"d","e","a","d","b","e","e","f">>

Cnonces == {<<"c","1">>, <<"c","2">>}

\* the text that follows a scheme name and a blank, up to the next comma
Trailer(s) == [key |-> s, val |-> NULL, trailer |-> TRUE]

\* the headers `Negotiate`, `Negotiate c2Vy`, `Negotiate !` and
\* `Negotiate, Basic realm="x"`
NegotiateHeaders ==
    { <<Bare(sNegotiate)>>,
      <<Bare(sNegotiate), Trailer(<<"c","2","V","y">>)>>,
      <<Bare(sNegotiate), Trailer(<<"!">>)>>,
      <<Bare(sNegotiate), Bare(sBasic), KV(kRealm, Q(vX))>> }

\* Basic realm="x"
hBasic == <<Bare(sBasic), KV(kRealm, Q(vX))>>
\* Digest realm="x", nonce="abc"
hDigest2069 == <<Bare(sDigest), KV(kRealm, Q(vX)), KV(kNonce, Q(vAbc))>>
\* Digest realm="x", nonce="abc", qop="auth"
hDigestQop == hDigest2069 \o <<KV(kQop, Q(vAuth))>>
\* Digest realm="x", nonce="def", qop="auth", stale=true
hDigestStale ==
    <<Bare(sDigest), KV(kRealm, Q(vX)), KV(kNonce, Q(vDef)),
      KV(kQop, Q(vAuth)), KV(kStale, vTrue)>>
\* Digest realm="x", nonce="def", stale=true
hDigestStale2069 ==
    <<Bare(sDigest), KV(kRealm, Q(vX)), KV(kNonce, Q(vDef)), KV(kStale, vTrue)>>
\* Basic realm="x", Digest realm="x", nonce="abc"
hBasicDigest == hBasic \o hDigest2069
\* Digest realm="x", nonce="abc", algorithm=MD5-sess, qop="auth,auth-int"
hDigestSess ==
    hDigest2069 \o
    <<KV(kAlgorithm, <<"M","D","5","-","s","e","s","s">>),
      KV(kQop, Q(vAuth \o <<",">> \o vAuth \o <<"-","i","n","t">>))>>
\* Digest realm="x", nonce="abc", algorithm=foo, Basic realm="x"
hDigestBadAlgBasic ==
    hDigest2069 \o <<KV(kAlgorithm, <<"f","o","o">>)>> \o hBasic
\* Digest nonce="abc"
hDigestNoRealm == <<Bare(sDigest), KV(kNonce, Q(vAbc))>>
\* NTLM, realm="x"
hUnknown == <<Bare(<<"N","T","L","M">>), KV(kRealm, Q(vX))>>
\* DIGEST Realm='x', NONCE=def, opaque="op", QOP=AUTH
hDigestUpper ==
    <<Bare(<<"D","I","G","E","S","T">>),
      KV(<<"R","e","a","l","m">>, <<"'","x","'">>),
      KV(<<"N","O","N","C","E">>, vDef), KV(kOpaque, Q(vOp)),
      KV(<<"Q","O","P">>, <<"A","U","T","H">>)>>

ChallengeHeaders ==
    {hBasic, hDigest2069, hDigestQop, hDigestStale, hDigestStale2069,
     hBasicDigest, hDigestSess, hDigestBadAlgBasic, hDigestNoRealm,
     hUnknown, hDigestUpper}

\* what the server holds for a user
ServerPassword(user) ==
    IF user = <<"j","o">> THEN <<"f","o","o">>
    ELSE IF user = <<"a","l">> THEN <<"b","a","r">>
    ELSE <<>>

\* rspauth as RFC 2617 3.2.3 has the server compute it from the
\* Authorization header h it received, echoing cnonce cn and nc-value nc
ServerRspauth(h, cn, nc) ==
    LET user == IF h.username = NULL THEN <<>> ELSE h.username
        realm == IF h.realm = NULL THEN <<>> ELSE h.realm
        nonce == IF h.nonce = NULL THEN <<>> ELSE h.nonce
        uri == IF h.uri = NULL THEN uRoot ELSE h.uri
        a1 == user \o <<":">> \o realm \o <<":">> \o ServerPassword(user)
        ha1 == IF h.algorithm = <<"M","D","5","-","s","e","s","s">>
               THEN ne_md5_finish_ascii(ne_md5_finish_ascii(a1) \o <<":">>
                                        \o nonce \o <<":">> \o cn)
               ELSE ne_md5_finish_ascii(a1)
    IN  ne_md5_finish_ascii(ha1 \o <<":">> \o nonce \o <<":">> \o nc \o <<":">>
                            \o cn \o <<":">> \o vAuth \o <<":">>
                            \o ne_md5_finish_ascii(<<":">> \o uri))

\* the Authentication-Info values a server may answer the request header h
\* with
InfoHeaders(h) ==
    LET cn == IF h.cnonce = NULL THEN <<"c","1">> ELSE h.cnonce
        nc == IF h.nc = NULL THEN Hex8(1) ELSE h.nc
        other == CHOOSE c \in Cnonces : c # cn
        good == ServerRspauth(h, cn, nc)
        qauth == KV(kQop, vAuth)
    IN  { \* nextnonce="def"
          <<KV(kNextnonce, Q(vDef))>>,
          \* the honest answer
          <<qauth, KV(kRspauth, Q(good)), KV(kCnonce, Q(cn)), KV(kNc, nc)>>,
          <<KV(kNextnonce, Q(vDef)), qauth, KV(kRspauth, Q(good)),
            KV(kCnonce, Q(cn)), KV(kNc, nc)>>,
          \* a wrong rspauth
          <<qauth, KV(kRspauth, Q(vDeadbeef)), KV(kCnonce, Q(cn)), KV(kNc, nc)>>,
          \* rspauth missing
          <<qauth, KV(kCnonce, Q(cn)), KV(kNc, nc)>>,
          \* another cnonce
          <<qauth, KV(kRspauth, Q(good)), KV(kCnonce, Q(other)), KV(kNc, nc)>>,
          \* another nc
          <<qauth, KV(kRspauth, Q(good)), KV(kCnonce, Q(cn)),
            KV(kNc, Hex8(sscanf_x(nc).val + 1))>>,
          \* an nc that is no hex number
          <<qauth, KV(kRspauth, Q(good)), KV(kCnonce, Q(cn)),
            KV(kNc, <<"z","z">>)>>,
          \* qop=auth-int with a wrong rspauth and another cnonce
          <<KV(kQop, vAuth \o <<"-","i","n","t">>), KV(kRspauth, Q(vDeadbeef)),
            KV(kCnonce, Q(other)), KV(kNc, nc)>>,
          \* no qop, wrong rspauth and cnonce
          <<KV(kRspauth, Q(vDeadbeef)), KV(kCnonce, Q(other)), KV(kNc, nc)>> }

\* the responses a request that carried header h may get
Responses(r, h, e) ==
    LET code == spec_of(r).status_code
        chal(c, toks) == IF r = "proxy"
                         THEN [NoResponse EXCEPT !.code = c, !.proxy = Present(toks)]
                         ELSE [NoResponse EXCEPT !.code = c, !.www = Present(toks)]
    IN  {chal(code, toks) : toks \in e.headers}
        \cup {[NoResponse EXCEPT !.code = 200]}
        \cup {chal(200, toks) :
                 toks \in {x \in e.headers :
                             \E n \in 1..Len(protocols) :
                                /\ protocols[n].id = "NEGOTIATE"
                                /\ StrCaseEq(x[1].key, protocols[n].name)}}
        \cup (IF e.infos
              THEN {[NoResponse EXCEPT !.code = 200, !.info = Present(toks)] :
                       toks \in InfoHeaders(h)}
                   \cup {[NoResponse EXCEPT !.code = 401, !.www = Present(hBasic)],
                         [NoResponse EXCEPT !.code = 401, !.proxy = Present(hBasic)],
                         [NoResponse EXCEPT !.code = 401,
                             !.www = Present(hDigestQop),
                             !.info = Present(CHOOSE i \in InfoHeaders(h) : Len(i) = 3)],
                         chal(200, hBasic),
                         [chal(code, hDigestQop) EXCEPT !.info =
                             Present(CHOOSE i \in InfoHeaders(h) : Len(i) = 3)]}
              ELSE {})

\* what an application registers: ne_set_*_auth(cbA, udA),
\* ne_add_*_auth(DIGEST, cbA, udB), ne_add_*_auth(BASIC, cbB, udA)
Registrations(isproxy, ishttps) ==
    { [protomask |-> DefaultProtomask(isproxy, ishttps), creds |-> "cbA",
       userdata |-> "udA"],
      [protomask |-> {"DIGEST"}, creds |-> "cbA", userdata |-> "udB"],
      [protomask |-> {"BASIC"}, creds |-> "cbB", userdata |-> "udA"] }

----------------------------------------------------------------------------
(* The state machine *)

NoNextnonce == [nextnonce |-> NULL, nonce_count |-> 0]

\* the session of a fresh ne_session in the environment e
InitWith(e) ==
    /\ env = e @@ [build |-> "HAVE_GSSAPI"]
    /\ ahs_set = FALSE
    /\ sess = NewSession(role = "proxy", https)
    /\ req = NoRequest
    /\ ret = NE_OK
    /\ tried = <<>>
    /\ reg_log = <<>>
    /\ rdig_hist = "none"
    /\ sends = 0
    /\ accepted = "none"
    /\ tok_hist = "none"
    /\ nn_hist = NoNextnonce
    /\ parse = NULL

\* one registration, every challenge and Authentication-Info header
Init ==
    /\ \E c \in {<<"server", FALSE>>, <<"proxy", TRUE>>} :
         role = c[1] /\ https = c[2]
    /\ InitWith([regs |-> 1, headers |-> ChallengeHeaders, infos |-> TRUE])

\* rdig_hist tells what became of the stored_rdig snapshot: "none" before
\* any request went out with qop=auth; "snap" when the request sent last
\* used qop=auth; "consumed" once a verification finished the snapshot;
\* "cleared" once clean_session dropped it; the suffix "_old" when
\* a request without qop=auth has been sent since.
Cleared(hist) ==
    IF hist = "snap" THEN "cleared"
    ELSE IF hist = "snap_old" THEN "cleared_old"
    ELSE hist

SentWithoutQop(hist) ==
    IF hist = "snap" THEN "snap_old"
    ELSE IF hist = "cleared" THEN "cleared_old"
    ELSE hist

\* ne_set_server_auth, ne_set_proxy_auth, ne_add_server_auth, ne_add_proxy_auth
Register ==
    /\ req.pc = "idle"
    /\ Len(reg_log) < env.regs
    /\ \E h \in Registrations(role = "proxy", https) :
         /\ sess' = auth_register(sess, h.protomask, h.creds, h.userdata)
         /\ reg_log' = Append(reg_log, h)
    /\ ahs_set' = TRUE
    /\ UNCHANGED <<role, https, req, ret, tried, env, rdig_hist, sends,
                   accepted, tok_hist, nn_hist, parse>>

\* ne_forget_auth
ForgetAuth ==
    /\ req.pc = "idle"
    /\ ahs_set
    /\ sess' = clean_session(sess)
    /\ rdig_hist' = Cleared(rdig_hist)
    /\ tok_hist' = "none"
    /\ UNCHANGED <<role, https, ahs_set, req, ret, tried, env, reg_log,
                   sends, accepted, nn_hist, parse>>

\* ne_request_create running the create-request hook
CreateRequest ==
    /\ req.pc = "idle"
    /\ \E m \in {mGET, mCONNECT} :
         req' = [NoRequest EXCEPT !.pc = "created", !.method = m,
                                  !.areq = ahs_set /\ ah_create(sess, m)]
    /\ UNCHANGED <<role, https, ahs_set, sess, ret, tried, env, reg_log,
                   rdig_hist, sends, accepted, tok_hist, nn_hist, parse>>

\* tok_hist tells what became of the cached gssapi_token: "none" while
\* there is none, "cached" once continue_negotiate stored a new one,
\* "emitted" once a request carried it, "stranded" when that request was
\* destroyed before its response was processed.
Emitted(hist, value) ==
    IF value.scheme = sNegotiate THEN "emitted" ELSE hist

\* the state after a pre-send hook that did r
PreSendDone(r) ==
    /\ sess' = r.sess
    /\ req' = [req EXCEPT !.pc = IF r.crash THEN "crashed" ELSE "sent",
                          !.out = r.value, !.resp = NoResponse]
    /\ rdig_hist' = IF r.value.qop # NULL THEN "snap"
                    ELSE IF req.areq THEN SentWithoutQop(rdig_hist)
                    ELSE rdig_hist
    /\ sends' = IF req.areq THEN sends + 1 ELSE sends
    /\ tok_hist' = Emitted(tok_hist, r.value)
    /\ nn_hist' = IF req.areq THEN NoNextnonce ELSE nn_hist

\* the state after the pre-send hook of another request did r
PipelinedPreSendDone(r) ==
    /\ sess' = r.sess
    /\ req' = [req EXCEPT !.pc = IF r.crash THEN "crashed" ELSE @]
    /\ rdig_hist' = IF r.value.qop # NULL THEN "snap"
                    ELSE IF r.value # NoHeader THEN SentWithoutQop(rdig_hist)
                    ELSE rdig_hist
    /\ sends' = sends + 1
    /\ tok_hist' = Emitted(tok_hist, r.value)
    /\ nn_hist' = NoNextnonce

\* the pre-send hook, after which the request is on the wire
PreSend ==
    /\ req.pc = "created"
    /\ sends < MaxSends
    /\ sess.nonce_count < 2 * MaxSends
    /\ PreSendDone(ah_pre_send(sess, req))
    /\ ret' = NE_OK
    /\ tried' = <<>>
    /\ UNCHANGED <<role, https, ahs_set, env, reg_log, accepted, parse>>

\* the response to the request arrives
ReceiveResponse ==
    /\ req.pc = "sent"
    /\ \E r \in Responses(role, req.out, env) :
         /\ (r.code \in {401, 407} => req.attempt < MaxAttempt)
         /\ req' = [req EXCEPT !.pc = "responded", !.resp = r]
    /\ UNCHANGED <<role, https, ahs_set, sess, ret, tried, env, reg_log,
                   rdig_hist, sends, accepted, tok_hist, nn_hist, parse>>

\* nn_hist holds the nextnonce of the Authentication-Info header toks that
\* verify_digest_response has processed for the request sent last, with
\* the nonce_count the session s had at that moment; NoNextnonce otherwise
Installed(r, s, toks) ==
    IF /\ r.branch = "verify"
       /\ ~r.crash
       /\ InfoLocals(toks, 0).nextnonce # NULL
    THEN [nextnonce |-> InfoLocals(toks, 0).nextnonce,
          nonce_count |-> s.nonce_count]
    ELSE NoNextnonce

\* the state after a post-send hook that did r
PostSendDone(r) ==
    /\ sess' = r.sess
    /\ ret' = r.ret
    /\ req' = [req EXCEPT
                 !.pc = IF r.crash THEN "crashed"
                        ELSE IF r.ret = NE_RETRY THEN "created"
                        ELSE "done",
                 !.attempt = r.attempt,
                 !.resp = [NoResponse EXCEPT !.code = req.resp.code],
                 !.retries = IF ~r.crash /\ r.ret = NE_RETRY THEN @ + 1 ELSE @,
                 !.stale =
                    \/ @
                    \/ \E hdr \in {req.resp.www, req.resp.proxy} :
                          /\ hdr.present
                          /\ \E i \in 1..Len(hdr.toks) :
                                /\ StrCaseEq(hdr.toks[i].key, kStale)
                                /\ StrCaseEq(ne_shave(hdr.toks[i].val,
                                                      {"\"", "'"}), vTrue)]
    /\ tried' = r.tried
    /\ rdig_hist' = IF r.consumed THEN "consumed"
                    ELSE IF r.cleaned THEN Cleared(rdig_hist)
                    ELSE rdig_hist
    /\ sends' = IF r.ret = NE_RETRY THEN 0 ELSE sends
    /\ accepted' = IF r.ret # NE_RETRY THEN accepted
                   ELSE IF protocols[r.sess.protocol].id = "DIGEST"
                           /\ r.sess.qop = auth_qop_auth
                        THEN "qop"
                   ELSE "other"
    /\ tok_hist' = IF r.sess.gssapi_token = NULL THEN "none"
                   ELSE IF r.sess.gssapi_token # sess.gssapi_token THEN "cached"
                   ELSE tok_hist
    /\ nn_hist' = Installed(r, sess, AuthInfoHdr(sess, req, spec_of(role)).toks)

\* what get_cnonce() may return while the response resp is handled: any
\* client nonce, if resp has a challenge header at all
CnonceChoices(resp) ==
    IF resp.www.present \/ resp.proxy.present THEN Cnonces
    ELSE {CHOOSE c \in Cnonces : TRUE}

\* what the uninitialised local nonce_count of verify_digest_response may
\* hold: any unsigned value, of which one equal to the session's
\* nonce_count and one different from it are told apart
GarbageChoices(resp, s) ==
    IF resp.info.present THEN {s.nonce_count, s.nonce_count + 1} ELSE {0}

\* what gss_init_sec_context (or the SSPI provider) may answer while the
\* response resp is handled, if resp names a scheme of theirs at all: any
\* status, with an output token that is not the one cached already (the
\* mechanism never issues a token twice) and, the output of a failed call
\* being ignored, none on error
GssChoices(resp, s) ==
    IF \E hdr \in {resp.www, resp.proxy} :
          \E i \in 1..Len(hdr.toks), n \in 1..Len(protocols) :
             /\ protocols[n].id = "NEGOTIATE"
             /\ StrCaseEq(hdr.toks[i].key, protocols[n].name)
    THEN {g \in GssOutcomes :
            /\ g.major = "GSS_ERROR" => g.output = <<>>
            /\ ne_base64(g.output) # s.gssapi_token}
    ELSE {[major |-> "GSS_S_COMPLETE", output |-> <<>>]}

\* the post-send hook; on NE_RETRY the request is sent again
PostSend ==
    /\ req.pc = "responded"
    /\ \E cn \in CnonceChoices(req.resp),
          garbage \in GarbageChoices(req.resp, sess),
          gss \in GssChoices(req.resp, sess) :
         PostSendDone(IF ahs_set
                      THEN ah_post_send(sess, req, spec_of(role), cn, garbage, gss)
                      ELSE Untouched(sess, req))
    /\ UNCHANGED <<role, https, ahs_set, env, reg_log, parse>>

\* ne_request_destroy running the destroy-request hook
DestroyRequest ==
    /\ req.pc = "done"
    /\ req' = NoRequest
    /\ ret' = NE_OK
    /\ tried' = <<>>
    /\ UNCHANGED <<role, https, ahs_set, sess, env, reg_log, rdig_hist,
                   sends, accepted, tok_hist, nn_hist, parse>>

Next ==
    \/ Register
    \/ ForgetAuth
    \/ CreateRequest
    \/ PreSend
    \/ ReceiveResponse
    \/ PostSend
    \/ DestroyRequest

Spec == Init /\ [][Next]_vars

\* MaxReg registrations, against a server that challenges for Basic or Digest
InitReg ==
    /\ \E c \in {<<"server", FALSE>>, <<"proxy", FALSE>>} :
         role = c[1] /\ https = c[2]
    /\ InitWith([regs |-> MaxReg, headers |-> {hBasic, hDigest2069},
                 infos |-> FALSE])

SpecReg == InitReg /\ [][Next]_vars

\* one registration on each kind of session: a server over http (context
\* AUTH_ANY), a server over https (AUTH_NOTCONNECT) and a proxy of an https
\* session (AUTH_CONNECT)
InitCtx ==
    /\ \E c \in {<<"server", FALSE>>, <<"server", TRUE>>, <<"proxy", TRUE>>} :
         role = c[1] /\ https = c[2]
    /\ InitWith([regs |-> 1, headers |-> {hBasic, hDigestQop}, infos |-> FALSE])

SpecCtx == InitCtx /\ [][Next]_vars

\* a server whose Digest challenges are sound at one time and lack a
\* parameter or name an algorithm the client cannot use at another:
\* algorithm=foo, algorithm=MD5-sess without qop, no realm, no nonce
InitRej ==
    /\ role = "server" /\ https = FALSE
    /\ InitWith([regs |-> 1,
                 headers |-> {hDigestQop, hDigestBadAlgBasic,
                              hDigest2069 \o <<KV(kAlgorithm, vMd5Sess)>>,
                              hDigestNoRealm,
                              <<Bare(sDigest), KV(kRealm, Q(vX))>>},
                 infos |-> FALSE])

SpecRej == InitRej /\ [][Next]_vars

\* the build with HAVE_SSPI: a proxy that challenges for NTLM, with and
\* without a token, or for Basic
InitSspi ==
    /\ role = "proxy" /\ https = FALSE
    /\ InitWith([regs |-> 1,
                 headers |-> {<<Bare(<<"N","T","L","M">>)>>,
                              <<Bare(<<"N","T","L","M">>),
                                Trailer(<<"c","2","V","y">>)>>,
                              hBasic},
                 infos |-> FALSE, build |-> "HAVE_SSPI"])

SpecSspi == InitSspi /\ [][Next]_vars

\* the pre-send hook of another request of the same session, run while
\* the request req is on the wire: ah_pre_send takes whatever request it is
\* handed and works on the one auth_session (that request's own response
\* is not followed)
PipelinedPreSend ==
    /\ req.pc = "sent"
    /\ sends < MaxSends
    /\ sess.nonce_count < 2 * MaxSends
    /\ \E m \in {mGET, mCONNECT} :
         PipelinedPreSendDone(
             ah_pre_send(sess, [NoRequest EXCEPT
                                  !.pc = "created", !.method = m,
                                  !.areq = ahs_set /\ ah_create(sess, m)]))
    /\ UNCHANGED <<role, https, ahs_set, ret, tried, env, reg_log, accepted,
                   parse>>

NextPipe == Next \/ PipelinedPreSend

\* ne_request_destroy on a request that was sent and whose response was
\* never processed (the dispatch failed or was abandoned): the
\* destroy-request hook runs, the post-send hook never did
CancelRequest ==
    /\ req.pc = "sent"
    /\ req' = NoRequest
    /\ ret' = NE_OK
    /\ tried' = <<>>
    /\ tok_hist' = IF tok_hist = "emitted" THEN "stranded" ELSE tok_hist
    /\ UNCHANGED <<role, https, ahs_set, sess, env, reg_log, rdig_hist,
                   sends, accepted, nn_hist, parse>>

NextGss == Next \/ CancelRequest

\* a server or proxy that challenges for Negotiate or Digest, against a session
\* whose default registration admits it (https, or proxy role)
InitGss ==
    /\ \E c \in {<<"server", TRUE>>, <<"proxy", FALSE>>} :
         role = c[1] /\ https = c[2]
    /\ InitWith([regs |-> 1, headers |-> NegotiateHeaders \cup {hDigestQop},
                 infos |-> FALSE])

SpecGss == InitGss /\ [][NextGss]_vars

\* a server challenging for Digest with qop=auth, and an application that
\* starts a second request before the first is answered
InitPipe ==
    /\ role = "server" /\ https = FALSE
    /\ InitWith([regs |-> 1, headers |-> {hDigestQop}, infos |-> TRUE])

SpecPipe == InitPipe /\ [][NextPipe]_vars

----------------------------------------------------------------------------
(* Properties *)

\* index in reg_log of the earliest registration whose protomask admits
\* protocol p, 0 if there is none
FirstAdmitting(p) ==
    LET Is == {i \in 1..Len(reg_log) : protocols[p].id \in reg_log[i].protomask}
    IN  IF Is = {} THEN 0 ELSE CHOOSE i \in Is : \A j \in Is : i <= j

\* C1: the handler chain is append-only: every handler ever registered is
\* still in the chain, in registration order, and the chain is as long as
\* the number of registrations.
C1_ChainAppendOnly == sess.handlers = reg_log

\* C2: first-registered wins per scheme: every challenge that was tried was
\* claimed by the earliest registration admitting its scheme, and an
\* accepted challenge got its username from that registration's callback
\* and userdata.
C2_FirstRegisteredWins ==
    \A i \in 1..Len(tried) :
        /\ FirstAdmitting(tried[i].protocol) # 0
        /\ tried[i].handler = reg_log[FirstAdmitting(tried[i].protocol)]
        /\ tried[i].ok =>
              sess.username =
                  UserOf(reg_log[FirstAdmitting(tried[i].protocol)].userdata)

\* the scheme the session has selected, "NONE" when sess->protocol is NULL
SelectedScheme(s) ==
    IF s.protocol = NoProtocol THEN "NONE" ELSE protocols[s.protocol].id

\* C3: whenever the session's selected scheme is non-null, every session
\* field the scheme's respond function reads is populated: the base64 blob
\* for Basic; realm, nonce, cnonce and an H(A1) computed from obtained
\* credentials for Digest.
C3_SelectedSchemePopulated ==
    /\ SelectedScheme(sess) = "BASIC" => sess.basic # NULL
    /\ SelectedScheme(sess) = "DIGEST" =>
          /\ sess.realm # NULL
          /\ sess.nonce # NULL
          /\ sess.cnonce # NULL
          /\ sess.h_a1 # ZeroHA1

\* the post-send hook has just accepted a challenge and the request is
\* about to be sent again; the acceptor that succeeded is the last tried
JustAccepted ==
    /\ req.pc = "created"
    /\ ret = NE_RETRY
    /\ tried # <<>>
    /\ tried[Len(tried)].ok

\* the accepted challenge was not stale: a Basic challenge, or a Digest
\* challenge for which credentials were requested
JustAcceptedNonStale == JustAccepted /\ tried[Len(tried)].called

\* a step of the pre-send hook that emits a qop=auth Digest header
QopSend ==
    /\ req.pc = "created"
    /\ req'.pc = "sent"
    /\ req'.out.qop # NULL

\* a step of the post-send hook that accepts a Digest challenge offering
\* qop=auth
QopChallengeAccepted ==
    /\ req.pc = "responded"
    /\ ret' = NE_RETRY
    /\ SelectedScheme(sess') = "DIGEST"
    /\ sess'.qop = auth_qop_auth

\* C4 as stated: while the session's nonce value stays the same,
\* nonce_count never decreases and each qop=auth send raises it.
C4_IncreasingWhileNonceSame ==
    [][(sess.nonce # NULL /\ sess'.nonce = sess.nonce) =>
          /\ sess'.nonce_count >= sess.nonce_count
          /\ QopSend => sess'.nonce_count > sess.nonce_count]_vars

\* C4 amended: nonce_count never decreases except when a Digest challenge
\* offering qop=auth is accepted (which restarts it at zero even when the
\* challenge repeats the nonce value), and each qop=auth send raises it by
\* one.
C4_IncreasingBetweenAcceptances ==
    [][~QopChallengeAccepted =>
          /\ sess'.nonce_count >= sess.nonce_count
          /\ QopSend => sess'.nonce_count = sess.nonce_count + 1]_vars

\* a second qop=auth request on one nonce has gone out
C4_Witness ==
    /\ req.pc = "sent"
    /\ req.out.qop # NULL
    /\ sess.nonce_count = 2
    /\ sess.nonce = req.out.nonce

\* C5 as stated: every successful non-stale challenge acceptance, whatever
\* the scheme and whether or not qop was offered, leaves nonce_count at
\* zero.
C5_ResetOnEveryAcceptance ==
    JustAcceptedNonStale => sess.nonce_count = 0

\* a step of the post-send hook that accepts a non-stale challenge; the
\* primed state tells which
NonStaleAcceptance ==
    /\ req.pc = "responded"
    /\ ret' = NE_RETRY
    /\ tried' # <<>>
    /\ tried'[Len(tried')].ok
    /\ tried'[Len(tried')].called

\* C5 amended: the successful non-stale acceptance of a Digest challenge
\* that offers qop=auth resets nonce_count to zero whatever it was before;
\* the acceptance of a Basic challenge or of a Digest challenge without
\* qop=auth leaves nonce_count as it was.
C5_ResetOnQopAcceptance ==
    [][NonStaleAcceptance =>
          IF SelectedScheme(sess') = "DIGEST" /\ sess'.qop = auth_qop_auth
          THEN sess'.nonce_count = 0
          ELSE sess'.nonce_count = sess.nonce_count]_vars

\* a request that went out with a qop=auth header was challenged again and
\* the new non-stale qop=auth challenge accepted: the count is back at zero
C5_Witness ==
    /\ JustAcceptedNonStale
    /\ SelectedScheme(sess) = "DIGEST"
    /\ sess.qop = auth_qop_auth
    /\ req.out.nc # NULL
    /\ sess.nonce_count = 0

\* the challenge just accepted was a non-stale Digest challenge
JustAcceptedDigest ==
    JustAcceptedNonStale /\ SelectedScheme(sess) = "DIGEST"

\* C6 as stated: after every accepted non-stale Digest challenge,
\* nonce_count is 1 right after the first pre-send that follows.
C6_FirstSendCountsOne ==
    [][JustAcceptedDigest => sess'.nonce_count = 1]_vars

\* C6 amended: after every accepted non-stale Digest challenge that offers
\* qop=auth, nonce_count is 1 right after the first pre-send that follows.
C6_FirstQopSendCountsOne ==
    [][(JustAcceptedDigest /\ sess.qop = auth_qop_auth) =>
          sess'.nonce_count = 1]_vars

\* the retry of a request whose non-stale qop=auth challenge was accepted
\* has gone out, as the first request since
C6_Witness ==
    /\ req.pc = "sent"
    /\ req.attempt > 0
    /\ sends = 1
    /\ req.out.qop # NULL
    /\ req.out.response # NULL
    /\ sess.h_a1 # ZeroHA1
    /\ sess.nonce_count = 1

\* nc is k written as eight lower-case hex digits
IsNcOf(nc, k) ==
    /\ nc # NULL
    /\ Len(nc) = 8
    /\ \A i \in 1..Len(nc) : \E d \in 1..16 : Digits[d] = nc[i]
    /\ HexPrefixVal(nc, 0) = k

\* C7 as stated: after a Digest challenge with qop=auth is accepted, the
\* k-th request sent with no challenge acceptance in between carries nc = k
\* written as eight hex digits, and the nc of every qop=auth header is the
\* session's nonce_count at that moment.
C7_NcCountsRequests ==
    /\ (req.pc = "sent" /\ req.areq /\ accepted = "qop") =>
          IsNcOf(req.out.nc, sends)
    /\ (req.pc = "sent" /\ req.out.qop # NULL) =>
          IsNcOf(req.out.nc, sess.nonce_count)

\* C7 amended: after a Digest challenge with qop=auth is accepted, the k-th
\* request sent with no challenge in between, accepted or declined,
\* carries nc = k written as eight hex digits, and the nc of every qop=auth
\* header is the session's nonce_count at that moment.
C7_NcCountsRequestsUnchallenged ==
    /\ (/\ req.pc = "sent" /\ req.areq /\ accepted = "qop"
        /\ sess.protocol # NoProtocol) =>
          (req.out.qop = vAuth /\ IsNcOf(req.out.nc, sends))
    /\ (req.pc = "sent" /\ req.out.qop # NULL) =>
          IsNcOf(req.out.nc, sess.nonce_count)

\* the second request after the acceptance carries nc=00000002
C7_Witness ==
    /\ req.pc = "sent"
    /\ accepted = "qop"
    /\ sends = 2
    /\ req.out.nc = <<"0","0","0","0","0","0","0","2">>

\* C8 as stated: stored_rdig is non-null if and only if the most recently
\* sent request used qop=auth and no response-digest verification has
\* consumed the snapshot since.
C8_SnapshotIffLastSendQop ==
    (sess.stored_rdig # NULL) <=> (rdig_hist \in {"snap", "cleared"})

\* C8 amended: stored_rdig is non-null if and only if some request was sent
\* with qop=auth and, since the latest such request, neither a
\* response-digest verification consumed the snapshot nor clean_session
\* released it (whether or not requests without qop=auth followed).
C8_SnapshotUntilConsumedOrCleaned ==
    (sess.stored_rdig # NULL) <=> (rdig_hist \in {"snap", "snap_old"})

\* a verification has consumed the snapshot of a qop=auth request and
\* returned OK
C8_Witness ==
    /\ rdig_hist = "consumed"
    /\ req.pc = "done"
    /\ ret = NE_OK
    /\ sess.stored_rdig = NULL

\* the protocols offered by the challenge header toks that some handler of
\* the chain admits
Offered(toks, handlers) ==
    {p \in 1..Len(protocols) :
        /\ \E i \in 1..Len(toks) :
              toks[i].val = NULL /\ StrCaseEq(toks[i].key, protocols[p].name)
        /\ \E h \in 1..Len(handlers) : protocols[p].id \in handlers[h].protomask}

\* a step of the post-send hook that ran auth_challenge
ChallengeStep ==
    /\ req.pc = "responded"
    /\ ret' \in {NE_RETRY, NE_AUTH, NE_PROXYAUTH}

\* what C9 says of a challenge header toks handled by a ChallengeStep
StrongestAcceptable(toks) ==
    /\ \A i, j \in 1..Len(tried') :
          i < j => /\ protocols[tried'[i].protocol].strength
                        >= protocols[tried'[j].protocol].strength
                   /\ ~tried'[i].ok
    /\ \A p \in Offered(toks, sess.handlers) :
          (\/ sess'.protocol = NoProtocol
           \/ protocols[p].strength > protocols[sess'.protocol].strength)
          => \E i \in 1..Len(tried') : tried'[i].protocol = p /\ ~tried'[i].ok
    /\ IF ret' = NE_RETRY
       THEN /\ tried' # <<>>
            /\ tried'[Len(tried')].ok
            /\ sess'.protocol = tried'[Len(tried')].protocol
       ELSE /\ sess'.protocol = NoProtocol
            /\ \A i \in 1..Len(tried') : ~tried'[i].ok
    /\ (/\ toks = hBasicDigest
        /\ {"BASIC", "DIGEST"} \subseteq sess.handlers[1].protomask
        /\ sess.handlers[1].creds = "cbA"
        /\ req.attempt < CredTries)
       => SelectedScheme(sess') = "DIGEST"

\* C9: the challenges of a header are tried from strongest to weakest; the
\* first acceptor that succeeds gives the selected scheme and none is
\* invoked after it; every stronger offered scheme was tried and declined;
\* the selected scheme is null when none succeeds; and `Basic realm="x",
\* Digest realm="x", nonce="abc"` with both registered and credentials at
\* hand selects Digest.
C9_StrongestAcceptable ==
    [][ChallengeStep =>
          StrongestAcceptable(AuthHdr(sess, req, spec_of(role)).toks)]_vars

\* a Digest challenge was tried first and declined, and the Basic challenge
\* of the same header accepted
C9_Witness ==
    /\ ret = NE_RETRY
    /\ Len(tried) = 2
    /\ protocols[tried[1].protocol].id = "DIGEST" /\ ~tried[1].ok
    /\ protocols[tried[2].protocol].id = "BASIC" /\ tried[2].ok
    /\ SelectedScheme(sess) = "BASIC"

\* the value of parameter key in the Authentication-Info pairs toks from
\* position i on, quotes removed; v when there is none (the last wins)
RECURSIVE InfoParam(_, _, _, _)
InfoParam(toks, key, i, v) ==
    IF i > Len(toks) THEN v
    ELSE InfoParam(toks, key, i + 1,
                   IF StrCaseEq(toks[i].key, key)
                   THEN ne_shave(toks[i].val, {"\""}) ELSE v)

\* cnonce, nc and rspauth of the header toks agree with the session's
\* cnonce, its nonce_count and the response-digest expected for the request
InfoAgrees(toks, s, uri) ==
    /\ InfoParam(toks, kCnonce, 1, NULL) # NULL
    /\ InfoParam(toks, kCnonce, 1, NULL) = s.cnonce
    /\ InfoParam(toks, kNc, 1, NULL) # NULL
    /\ sscanf_x(InfoParam(toks, kNc, 1, NULL)).ok
    /\ sscanf_x(InfoParam(toks, kNc, 1, NULL)).val = s.nonce_count
    /\ InfoParam(toks, kRspauth, 1, NULL) # NULL
    /\ s.stored_rdig # NULL
    /\ StrCaseEq(InfoParam(toks, kRspauth, 1, NULL),
                 ResponseDigest(s.stored_rdig, vAuth, uri))

\* a step of the post-send hook in which verify_digest_response checked an
\* Authentication-Info header carrying qop=auth and returned
VerifyStep ==
    /\ req.pc = "responded"
    /\ req'.pc = "done"
    /\ ahs_set /\ req.areq
    /\ SelectedScheme(sess) = "DIGEST"
    /\ AuthInfoHdr(sess, req, spec_of(role)).present
    /\ StrCaseEq(InfoParam(AuthInfoHdr(sess, req, spec_of(role)).toks,
                           kQop, 1, NULL), vAuth)

\* C10: for every Digest Authentication-Info response that is verified, the
\* status is OK if cnonce, nc and rspauth agree with the session's cnonce,
\* its nonce_count and the expected response-digest, and ERROR if any of
\* them disagrees.
C10_VerifyStatus ==
    [][VerifyStep =>
          ret' = IF InfoAgrees(AuthInfoHdr(sess, req, spec_of(role)).toks,
                               sess, req.uri)
                 THEN NE_OK ELSE NE_ERROR]_vars

\* the challenge header toks carries stale=true
HasStale(toks) ==
    \E i \in 1..Len(toks) :
        /\ StrCaseEq(toks[i].key, kStale)
        /\ StrCaseEq(ne_shave(toks[i].val, {"\""}), vTrue)

\* a step of the post-send hook that accepts a Digest challenge carrying
\* stale=true
StaleAcceptance ==
    /\ req.pc = "responded"
    /\ ret' = NE_RETRY
    /\ SelectedScheme(sess') = "DIGEST"
    /\ HasStale(AuthHdr(sess, req, spec_of(role)).toks)

\* the request is about to be sent again after a stale=true Digest
\* challenge was accepted
JustAcceptedStale ==
    /\ JustAccepted
    /\ SelectedScheme(sess) = "DIGEST"
    /\ ~tried[Len(tried)].called

\* C11: accepting a Digest challenge with stale=true does not invoke the
\* credential callback, leaves username and H(A1) unchanged, replaces nonce
\* with the challenge's nonce, generates a cnonce and sets nonce_count to
\* 0, so that the next request carries the new nonce with nc=00000001.
C11_StaleRefresh ==
    [][/\ StaleAcceptance =>
            (/\ \A i \in 1..Len(tried') : ~tried'[i].called
             /\ sess'.username = sess.username
             /\ sess'.h_a1 = sess.h_a1
             /\ sess'.nonce =
                    InfoParam(AuthHdr(sess, req, spec_of(role)).toks,
                              kNonce, 1, NULL)
             /\ sess'.cnonce \in Cnonces
             /\ sess'.nonce_count = 0)
       /\ JustAcceptedStale =>
            (/\ req'.pc = "sent"
             /\ req'.out.nonce = sess.nonce
             /\ req'.out.nc = <<"0","0","0","0","0","0","0","1">>)]_vars

\* a step of the post-send hook that took the challenge branch
\* (areq->attempt++) and in which no challenge was accepted
ChallengeDeclined ==
    /\ req.pc = "responded"
    /\ req'.attempt = req.attempt + 1
    /\ ~(tried' # <<>> /\ tried'[Len(tried')].ok)

C13_RetryIffSelected ==
    [][req.pc = "responded" =>
         (/\ ret' = NE_RETRY <=>
                (/\ req'.attempt = req.attempt + 1
                 /\ sess'.protocol # NoProtocol
                 /\ tried' # <<>>
                 /\ tried'[Len(tried')].ok)
          /\ ret' # NE_RETRY =>
                ret' \in {NE_OK, NE_ERROR, spec_of(role).fail_code})]_vars

\* a call that returned RETRY after an earlier call on the same session
\* had returned the fail code
C13_Witness ==
    /\ req.pc = "created"
    /\ ret = NE_RETRY
    /\ req.attempt = 1
    /\ SelectedScheme(sess) = "DIGEST"
    /\ rdig_hist = "cleared"

\* the response being processed is a 401 to a CONNECT request through a
\* proxy session (context AUTH_CONNECT)
ConnectGot401 ==
    /\ req.pc = "responded"
    /\ ahs_set /\ req.areq
    /\ role = "proxy"
    /\ sess.context = "AUTH_CONNECT"
    /\ req.resp.code = 401

\* the post-send step treated the header toks as a challenge: attempt was
\* incremented, the challenges of toks were tried strongest first, and the
\* result is RETRY when one was accepted and PROXYAUTH otherwise
TreatedAsProxyChallenge(toks) ==
    /\ req'.attempt = req.attempt + 1
    /\ StrongestAcceptable(toks)
    /\ IF tried' # <<>> /\ tried'[Len(tried')].ok
       THEN ret' = NE_RETRY /\ sess'.protocol = tried'[Len(tried')].protocol
       ELSE ret' = NE_PROXYAUTH /\ sess'.protocol = NoProtocol

\* C14: in proxy role with context AUTH_CONNECT a 401 response is treated
\* as a proxy challenge: with a Proxy-Authenticate header (and no
\* Proxy-Authentication-Info to verify) that header is the challenge; with
\* no Proxy-Authenticate header the WWW-Authenticate header is used and any
\* authentication-info header is ignored; the outcome is RETRY when a
\* challenge is accepted and PROXYAUTH otherwise.
C14_Connect401 ==
    [][ConnectGot401 =>
         (/\ (req.resp.proxy.present /\ ~req.resp.info.present) =>
                 TreatedAsProxyChallenge(req.resp.proxy.toks)
          /\ (~req.resp.proxy.present /\ req.resp.www.present) =>
                 TreatedAsProxyChallenge(req.resp.www.toks))]_vars

\* a 401 carrying WWW-Authenticate only (the one 401 offering Digest, which
\* also carries an authentication-info header) was accepted as a challenge
\* while Digest was selected and a qop=auth request had been sent
C14_Witness ==
    /\ role = "proxy"
    /\ sess.context = "AUTH_CONNECT"
    /\ req.pc = "created"
    /\ req.resp.code = 401
    /\ ret = NE_RETRY
    /\ SelectedScheme(sess) = "DIGEST"
    /\ rdig_hist = "cleared"

\* C15: when the Digest verifier returns ERROR, the selected scheme,
\* username, realm, H(A1), cnonce and nonce_count are left unchanged by the
\* verification.
C15_VerifyErrorKeepsSession ==
    [][(/\ req.pc = "responded"
        /\ SelectedScheme(sess) = "DIGEST"
        /\ ret' = NE_ERROR) =>
          (/\ sess'.protocol = sess.protocol
           /\ sess'.username = sess.username
           /\ sess'.realm = sess.realm
           /\ sess'.h_a1 = sess.h_a1
           /\ sess'.cnonce = sess.cnonce
           /\ sess'.nonce_count = sess.nonce_count)]_vars

\* a verification that compared the response-digest has failed, and the
\* Digest session still holds its credentials
C15_Witness ==
    /\ req.pc = "done"
    /\ ret = NE_ERROR
    /\ rdig_hist = "consumed"
    /\ SelectedScheme(sess) = "DIGEST"
    /\ sess.realm # NULL
    /\ sess.cnonce # NULL
    /\ sess.h_a1 # ZeroHA1
    /\ sess.nonce_count = 1

\* no credential material is left in session s
NoCredentialMaterial(s) ==
    /\ s.username = <<>>
    /\ s.basic = NULL
    /\ s.realm = NULL
    /\ s.nonce = NULL
    /\ s.cnonce = NULL
    /\ s.opaque = NULL
    /\ s.h_a1 = ZeroHA1
    /\ s.stored_rdig = NULL
    /\ s.gssapi_token = NULL

\* C16: Clear (ne_forget_auth, or the post-send hook giving up on a
\* challenge) removes all credential material - username, Basic blob,
\* realm, nonce, cnonce, opaque, H(A1), stored_rdig, Negotiate token - and
\* leaves the handler chain and the persistent identity (role, context)
\* unchanged.
C16_ClearRemovesAll ==
    [][(ForgetAuth \/ ChallengeDeclined) =>
          (/\ NoCredentialMaterial(sess')
           /\ sess'.handlers = sess.handlers
           /\ sess'.context = sess.context
           /\ role' = role)]_vars

\* the context filter c admits a request of the given method
Admits(c, method) ==
    CASE c = "AUTH_ANY" -> TRUE
      [] c = "AUTH_CONNECT" -> method = mCONNECT
      [] c = "AUTH_NOTCONNECT" -> method # mCONNECT

\* C19: on a session with authentication registered, an auth_request is
\* attached to a request if and only if the session's context filter admits
\* its method (AUTH_ANY every request, AUTH_CONNECT only CONNECT,
\* AUTH_NOTCONNECT only non-CONNECT); for a request without auth_request
\* the pre-send hook emits no credential header and the post-send hook
\* returns OK, both leaving the session state unchanged.
C19_ContextFilter ==
    [][/\ (ahs_set /\ req.pc = "idle" /\ req'.pc = "created") =>
            (req'.areq <=> Admits(sess.context, req'.method))
       /\ (ahs_set /\ ~req.areq /\ req.pc = "created" /\ req'.pc # "created") =>
            (req'.pc = "sent" /\ req'.out = NoHeader /\ sess' = sess)
       /\ (ahs_set /\ ~req.areq /\ req.pc = "responded") =>
            (req'.pc = "done" /\ ret' = NE_OK /\ sess' = sess)]_vars

\* a GET through a proxy session whose filter admits CONNECT only was
\* answered 407 while Digest credentials were held for CONNECT, and
\* post-send returned OK
C19_Witness ==
    /\ ahs_set
    /\ sess.context = "AUTH_CONNECT"
    /\ req.pc = "done"
    /\ req.method = mGET
    /\ ~req.areq
    /\ req.resp.code = 407
    /\ ret = NE_OK
    /\ SelectedScheme(sess) = "DIGEST"
    /\ sess.nonce # NULL

\* the Authentication-Info an honest server answers the qop=auth request
\* header h with: qop=auth, the rspauth computed from h with the password
\* the server holds, and h's own cnonce and nc
HonestInfo(h) ==
    <<KV(kQop, vAuth), KV(kRspauth, Q(ServerRspauth(h, h.cnonce, h.nc))),
      KV(kCnonce, Q(h.cnonce)), KV(kNc, h.nc)>>

\* the server, holding the user's password, finds the response digest of
\* the qop=auth request header h for the given method correct (RFC 2617
\* 3.2.2.1)
ServerAccepts(h, method) ==
    LET a1 == h.username \o <<":">> \o h.realm \o <<":">>
              \o ServerPassword(h.username)
        ha1 == IF h.algorithm = <<"M","D","5","-","s","e","s","s">>
               THEN ne_md5_finish_ascii(ne_md5_finish_ascii(a1) \o <<":">>
                                        \o h.nonce \o <<":">> \o h.cnonce)
               ELSE ne_md5_finish_ascii(a1)
    IN  /\ h.qop # NULL /\ h.realm # NULL /\ h.nonce # NULL
        /\ h.response =
              ne_md5_finish_ascii(ha1 \o <<":">> \o h.nonce \o <<":">> \o h.nc
                                  \o <<":">> \o h.cnonce \o <<":">> \o vAuth
                                  \o <<":">>
                                  \o ne_md5_finish_ascii(method \o <<":">>
                                                         \o h.uri))

\* C20: two requests are never interleaved against the same Digest
\* session: while a request that incremented nonce_count and took the
\* stored_rdig snapshot is in flight, no other request's pre-send changes
\* nonce_count or stored_rdig, and an honest server's Authentication-Info
\* for that request (whose credentials the server accepted) verifies OK.
C20_NoInterleaving ==
    [][/\ (req.pc = "sent" /\ req.out.qop # NULL) =>
            (/\ sess'.nonce_count = sess.nonce_count
             /\ sess'.stored_rdig = sess.stored_rdig)
       /\ (/\ req.pc = "responded"
           /\ ServerAccepts(req.out, req.method)
           /\ req.resp.code = 200
           /\ req.resp.info = Present(HonestInfo(req.out))) =>
            ret' = NE_OK]_vars

\* C17 as claimed: for every scheme (Basic, Digest, Negotiate), once a
\* challenge acceptor has succeeded and the scheme is selected, the respond
\* function run by the next pre-send yields a non-null header value.
C17_RespondNonNull ==
    [][JustAccepted => (req'.pc = "sent" /\ req'.out # NoHeader)]_vars

\* C17: once a challenge acceptor has succeeded and the scheme is
\* selected, the respond function run by the next pre-send yields a
\* non-null header value for Basic and for Digest, and for Negotiate
\* exactly when the accepting step cached an output token; when the
\* security context step succeeded without an output token no header is
\* produced.
C17_RespondNonNullGivenToken ==
    [][JustAccepted =>
         (/\ req'.pc = "sent"
          /\ SelectedScheme(sess) \in {"BASIC", "DIGEST"} =>
                (req'.out # NoHeader /\ req'.out.scheme # NULL)
          /\ SelectedScheme(sess) = "NEGOTIATE" =>
                /\ sess.gssapi_token # NULL =>
                      (/\ req'.out.scheme = sNegotiate
                       /\ req'.out.cred = sess.gssapi_token
                       /\ req'.out.crlf)
                /\ sess.gssapi_token = NULL => req'.out = NoHeader)]_vars

\* a request was sent again without credential header after a Negotiate
\* challenge had been accepted with no output token
C17_Witness ==
    /\ req.pc = "sent"
    /\ req.areq
    /\ req.attempt = 1
    /\ SelectedScheme(sess) = "NEGOTIATE"
    /\ sess.gssapi_token = NULL
    /\ req.out = NoHeader

\* a step of the pre-send hook that emits a Negotiate header
TokenSend ==
    /\ req.pc = "created"
    /\ req'.pc = "sent"
    /\ req'.out.scheme = sNegotiate

\* C18 as claimed: after every response the Negotiate token cached before
\* that response is cleared, and no token is emitted in the credential
\* header of two different requests.
C18_TokenConsumedOnce ==
    [][/\ (req.pc = "responded" /\ sess.gssapi_token # NULL) =>
            sess'.gssapi_token # sess.gssapi_token
       /\ TokenSend => tok_hist = "cached"]_vars

\* C18: after every response to a request the session's context filter
\* admits, the Negotiate token cached before that response is cleared, so a
\* token is emitted by at most one request whose response is processed; a
\* token is emitted a second time only when the request that carried it was
\* destroyed before its response was processed.
C18_TokenConsumedOncePerResponse ==
    [][/\ (req.pc = "responded" /\ req.areq /\ sess.gssapi_token # NULL) =>
            (/\ sess'.gssapi_token # sess.gssapi_token
             /\ tok_hist' \in {"none", "cached"})
       /\ TokenSend =>
            (/\ req'.out.cred = sess.gssapi_token
             /\ tok_hist \in {"cached", "stranded"})]_vars

\* the request that carried one token was challenged with a continuation
\* token, and a new output token is cached for the retry
C18_Witness ==
    /\ req.pc = "created"
    /\ ret = NE_RETRY
    /\ req.out.scheme = sNegotiate
    /\ sess.gssapi_token # NULL
    /\ req.out.cred # sess.gssapi_token
    /\ tok_hist = "cached"

\* a step of the post-send hook in which verify_digest_response ran on an
\* Authentication-Info header and returned
DigestVerifyStep ==
    /\ req.pc = "responded"
    /\ req'.pc = "done"
    /\ ahs_set /\ req.areq
    /\ SelectedScheme(sess) = "DIGEST"
    /\ AuthInfoHdr(sess, req, spec_of(role)).present

\* the Authentication-Info pairs toks lack rspauth, cnonce or nc, or carry
\* a cnonce other than the session's or an nc other than its nonce_count
InfoDeficient(toks, s) ==
    \/ InfoParam(toks, kRspauth, 1, NULL) = NULL
    \/ InfoParam(toks, kCnonce, 1, NULL) = NULL
    \/ InfoParam(toks, kNc, 1, NULL) = NULL
    \/ InfoParam(toks, kCnonce, 1, NULL) # s.cnonce
    \/ ~sscanf_x(InfoParam(toks, kNc, 1, NULL)).ok
    \/ sscanf_x(InfoParam(toks, kNc, 1, NULL)).val # s.nonce_count

\* C22: Digest verification accepts silently only when the
\* Authentication-Info header has no qop parameter; whenever a qop
\* parameter is present, whatever its value, the result is ERROR if
\* rspauth, cnonce or nc is missing, if cnonce differs from the session's
\* cnonce, or if nc differs from the session's nonce_count.
C22_QopRequiresAll ==
    [][DigestVerifyStep =>
         ((/\ InfoParam(AuthInfoHdr(sess, req, spec_of(role)).toks,
                        kQop, 1, NULL) # NULL
           /\ InfoDeficient(AuthInfoHdr(sess, req, spec_of(role)).toks, sess))
          => ret' = NE_ERROR)]_vars

\* C23 as claimed: whenever a verified Authentication-Info header carries
\* nextnonce, after the verifier returns, with OK or with ERROR, the
\* session's nonce equals nextnonce and nonce_count is unchanged, and the
\* next qop=auth request uses the new nonce with nc one greater than the
\* nonce_count the verifier left.
C23_NextnonceInstalled ==
    [][/\ (req.pc = "responded" /\ nn_hist' # NoNextnonce) =>
            (/\ ret' \in {NE_OK, NE_ERROR}
             /\ sess'.nonce = nn_hist'.nextnonce
             /\ sess'.nonce_count = sess.nonce_count)
       /\ (QopSend /\ nn_hist # NoNextnonce) =>
            (/\ req'.out.nonce = nn_hist.nextnonce
             /\ req'.out.nc = Hex8(nn_hist.nonce_count + 1))]_vars

\* a qop=auth request went out with the nonce a nextnonce parameter
\* installed and the second nc of the session
C23_Witness ==
    /\ req.pc = "sent"
    /\ req.out.qop # NULL
    /\ req.out.nonce = vDef
    /\ req.out.nc = Hex8(2)

\* C26: the Digest acceptor rejects a challenge whose algorithm is
\* unknown, whose algorithm is md5-sess without qop auth offered, or which
\* lacks realm or nonce; on each of these rejections the credential
\* callback is not invoked and realm, nonce, cnonce, opaque, username,
\* H(A1), nonce_count and stored_rdig of the session are not modified.
C26_DigestRejections ==
    \A i \in 1..Len(tried) :
        (/\ protocols[tried[i].protocol].id = "DIGEST"
         /\ \/ tried[i].parms.alg = auth_alg_unknown
            \/ (tried[i].parms.alg = auth_alg_md5_sess /\ ~tried[i].parms.qop_auth)
            \/ tried[i].parms.realm = NULL
            \/ tried[i].parms.nonce = NULL)
        => (~tried[i].ok /\ ~tried[i].called /\ tried[i].kept)

\* a session holding Digest credentials has just rejected a challenge of
\* unknown algorithm, which the Basic acceptor tried next has not seen
C26_Witness ==
    /\ Len(tried) = 2
    /\ protocols[tried[1].protocol].id = "DIGEST"
    /\ tried[1].parms.alg = auth_alg_unknown
    /\ ~tried[1].ok /\ tried[1].kept
    /\ req.attempt = 1
    /\ req.out.scheme = sDigest
    /\ req.out.qop # NULL

\* the response being processed carries the role's auth-info header and
\* the selected scheme has a verifier and lacks VERIFY_NON40x
InfoForVerifier ==
    /\ req.pc = "responded"
    /\ ahs_set /\ req.areq
    /\ AuthInfoHdr(sess, req, spec_of(role)).present
    /\ sess.protocol # NoProtocol
    /\ protocols[sess.protocol].verify
    /\ AUTH_FLAG_VERIFY_NON40x \notin protocols[sess.protocol].flags

\* C27: verification takes precedence over challenge processing in
\* post-send: when an auth-info header is present and the selected scheme
\* has a verifier and lacks VERIFY_NON40x, post-send invokes the verifier
\* and returns its result, and neither parses a challenge header of the
\* same response nor increments the attempt counter, even when the status
\* is the role's challenge code.
C27_VerifyBeforeChallenge ==
    [][InfoForVerifier =>
         (/\ tried' = <<>>
          /\ req'.attempt = req.attempt
          /\ req'.pc \in {"done", "crashed"}
          /\ req'.pc = "done" =>
                \E garbage \in GarbageChoices(req.resp, sess) :
                   ret' = verify_digest_response(
                              req, sess,
                              AuthInfoHdr(sess, req, spec_of(role)).toks,
                              garbage).ret)]_vars

\* a 401 that carried both a challenge and an Authentication-Info header
\* the verifier did not accept has ended the request with ERROR, the
\* challenge unread and the attempt counter where it was
C27_Witness ==
    /\ role = "server"
    /\ req.pc = "done"
    /\ req.resp.code = 401
    /\ ret = NE_ERROR
    /\ tried = <<>>
    /\ req.attempt = 1

\* the response being processed is a 2xx or 3xx with the role's challenge
\* header, a scheme is selected and the auth-info branch does not apply
ChallengeOn2xx3xx ==
    /\ req.pc = "responded"
    /\ ahs_set /\ req.areq
    /\ ~InfoForVerifier
    /\ (req.resp.code \div 100) \in {2, 3}
    /\ AuthHdr(sess, req, spec_of(role)).present
    /\ sess.protocol # NoProtocol

\* C28: on a 2xx or 3xx response with a challenge header present, when
\* the auth-info branch does not apply, post-send invokes the selected
\* scheme's verifier against the challenge header exactly when the scheme
\* has the VERIFY_NON40x flag, and a verifier is only ever invoked for a
\* scheme that has one.
C28_VerifyNon40x ==
    ChallengeOn2xx3xx =>
       \A gss \in GssChoices(req.resp, sess) :
          LET r == ah_post_send(sess, req, spec_of(role), <<"c","1">>, 0, gss)
          IN  /\ (r.branch = "verify_non40x") <=>
                    (AUTH_FLAG_VERIFY_NON40x \in protocols[sess.protocol].flags)
              /\ (r.branch \in {"verify", "verify_non40x"}) =>
                    protocols[sess.protocol].verify

\* the response being processed makes verify_digest_response reach its
\* response-digest comparison: Authentication-Info with qop=auth and with
\* rspauth, cnonce and nc present, cnonce and nc matching the session
ReachesComparison ==
    /\ InfoForVerifier
    /\ StrCaseEq(InfoParam(AuthInfoHdr(sess, req, spec_of(role)).toks,
                           kQop, 1, NULL), vAuth)
    /\ ~InfoDeficient(AuthInfoHdr(sess, req, spec_of(role)).toks, sess)

\* C30: in every reachable state in which verification reaches the
\* response-digest comparison, stored_rdig is non-null and holds the
\* snapshot taken by the pre-send of the same request.
C30_SnapshotAtComparison ==
    ReachesComparison =>
        (/\ sess.stored_rdig # NULL
         /\ rdig_hist = "snap"
         /\ req.out.qop # NULL
         /\ sess.stored_rdig = sess.h_a1 \o <<":">> \o sess.nonce \o <<":">>
                                  \o req.out.nc \o <<":">> \o req.out.cnonce
                                  \o <<":">>)

----------------------------------------------------------------------------
(* The tokenizer and the two parse loops, character by character *)

MaxPieces == 3       \* pieces a header value is put together from

\* tokenize() from position i of the buffer hdr on, in state st, with the
\* key starting at position k (0: *key is NULL) and the '=' found at e;
\* value and sep are what the caller's variables hold, and stay where the
\* function stores nothing: [ret, hdr, key, value, sep].  The NUL bytes
\* written into the buffer end the key and the value.
RECURSIVE TokScan(_, _, _, _, _, _, _, _)
TokScan(hdr, i, st, k, e, value, sep, ischall) ==
    LET n == Len(hdr)
        keystr == IF k = 0 THEN NULL
                  ELSE SubSeq(hdr, k, IF e # 0 THEN e - 1 ELSE n)
    IN  IF i > n
        THEN [ret |-> 0, hdr |-> <<>>, key |-> keystr,
              value |-> IF e # 0 THEN SubSeq(hdr, e + 1, n)
                        ELSE IF ischall = 1 /\ k # 0 THEN NULL ELSE value,
              sep |-> IF e = 0 /\ ischall = 1 /\ k # 0 THEN "" ELSE sep]
        ELSE IF st = "BEFORE_EQ"
        THEN IF hdr[i] = "="
             THEN IF k = 0
                  THEN [ret |-> 0 - 1, hdr |-> hdr, key |-> NULL,
                        value |-> value, sep |-> sep]
                  ELSE TokScan(hdr, i + 1, "AFTER_EQ", k, i, value, sep, ischall)
             ELSE IF hdr[i] \in {" ", ","} /\ ischall = 1 /\ k # 0
             THEN [ret |-> 0, hdr |-> SubSeq(hdr, i + 1, n),
                   key |-> SubSeq(hdr, k, i - 1), value |-> NULL,
                   sep |-> hdr[i]]
             ELSE IF k = 0 /\ hdr[i] \notin {" ", "\r", "\n", "\t"}
             THEN TokScan(hdr, i + 1, st, i, e, value, sep, ischall)
             ELSE TokScan(hdr, i + 1, st, k, e, value, sep, ischall)
        ELSE IF st = "AFTER_EQ"
        THEN IF hdr[i] = ","
             THEN [ret |-> 0, hdr |-> SubSeq(hdr, i + 1, n),
                   key |-> keystr, value |-> SubSeq(hdr, e + 1, i - 1),
                   sep |-> sep]
             ELSE TokScan(hdr, i + 1,
                          IF hdr[i] = "\"" THEN "AFTER_EQ_QUOTED" ELSE st,
                          k, e, value, sep, ischall)
        ELSE TokScan(hdr, i + 1, IF hdr[i] = "\"" THEN "AFTER_EQ" ELSE st,
                     k, e, value, sep, ischall)

\* a slip: no test for the end of the buffer at entry
tokenize_NoEndTest(hdr, key, value, sep, ischall) ==
    TokScan(hdr, 1, "BEFORE_EQ", 0, 0, value, sep, ischall)

\* tokenize(&hdr, &key, &value, &sep, ischall): the result and the four
\* variables afterwards
tokenize(hdr, key, value, sep, ischall) ==
    IF hdr = <<>>
    THEN [ret |-> 1, hdr |-> hdr, key |-> key, value |-> value, sep |-> sep]
    ELSE TokScan(hdr, 1, "BEFORE_EQ", 0, 0, value, sep, ischall)

\* header values: up to n pieces in a row, each piece one of
\*   Basic realm="x",    Digest nonce=a, (a blank after the comma)
\*   Digest realm=b,     NTLM,      qop="auth,x",     Negotiate c2Vy,     =
RECURSIVE ParseBuffers(_)
ParseBuffers(n) ==
    IF n = 0 THEN {<<>>}
    ELSE LET Shorter == ParseBuffers(n - 1)
             Pieces == {
              <<"B","a","s","i","c"," ","r","e","a","l","m","=","\"","x","\"",",">>,
              <<"D","i","g","e","s","t"," ","n","o","n","c","e","=","a",","," ">>,
              <<"D","i","g","e","s","t"," ","r","e","a","l","m","=","b",",">>,
              <<"N","T","L","M",",">>,
              <<"q","o","p","=","\"","a","u","t","h",",","x","\"",",">>,
              <<"N","e","g","o","t","i","a","t","e"," ","c","2","V","y",",">>,
              <<"=">> }
         IN  Shorter \cup {b \o p : b \in Shorter, p \in Pieces}

\* parse holds the locals of a parse loop: pnt, key, val, sep as the loop
\* has them (val starts uninitialised), chall as a position in challenges,
\* the locals loc of verify_digest_response; tok is what the last call of
\* tokenize returned, hdr0 the buffer it was called on, calls the number
\* of calls so far and value the header value; stamps[i] tells
\* how many challenges had been inserted when challenges[i] was, claimed
\* whether the last scheme token was claimed by a handler
InitParse ==
    /\ role = "server"
    /\ https = TRUE
    /\ env = [regs |-> 1, headers |-> {}, infos |-> FALSE,
              build |-> "HAVE_GSSAPI"]
    /\ ahs_set = FALSE
    /\ \E h \in {x \in Registrations(FALSE, TRUE) : x.creds = "cbA"} :
         sess = auth_register(NewSession(FALSE, TRUE), h.protomask, h.creds,
                              h.userdata)
    /\ req = NoRequest
    /\ ret = NE_OK
    /\ tried = <<>>
    /\ reg_log = <<>>
    /\ rdig_hist = "none"
    /\ sends = 0
    /\ accepted = "none"
    /\ tok_hist = "none"
    /\ nn_hist = NoNextnonce
    /\ \E b \in ParseBuffers(MaxPieces), m \in {0, 1} :
         parse = [ischall |-> m, pc |-> "loop", pnt |-> b, key |-> NULL,
                  val |-> <<"uninit">>, sep |-> "", chall |-> 0,
                  challenges |-> <<>>, loc |-> InfoLocals(<<>>, 0),
                  tok |-> [ret |-> 0, hdr |-> b, key |-> NULL,
                           value |-> <<"uninit">>, sep |-> ""],
                  hdr0 |-> b, value |-> b, calls |-> 0, stamps |-> <<>>,
                  claimed |-> "none"]

\* one turn of the loop of auth_challenge: the call of tokenize and the
\* body.  An uninitialised val compares as NULL or as not NULL; pc "crash"
\* is ne_strcasecmp() on a NULL key.
ChallengeLoop ==
    /\ parse.pc = "loop"
    /\ parse.ischall = 1
    /\ LET t == tokenize(parse.pnt, parse.key, parse.val, parse.sep, 1)
           base == [parse EXCEPT !.hdr0 = parse.pnt, !.tok = t,
                                 !.calls = @ + 1,
                                 !.pnt = t.hdr, !.key = t.key,
                                 !.val = t.value, !.sep = t.sep]
       IN  IF t.ret # 0
           THEN parse' = [base EXCEPT !.pc = "done"]
           ELSE \E v \in (IF t.value = <<"uninit">> THEN {NULL, <<"?">>}
                          ELSE {t.value}) :
                IF v = NULL
                THEN IF t.key = NULL
                     THEN parse' = [base EXCEPT !.pc = "crash"]
                     ELSE LET k == IndexOf(t.hdr, ",", 1)
                              trailer ==
                                IF t.sep # " " THEN NULL
                                ELSE IF k = 0 THEN t.hdr
                                ELSE SubSeq(t.hdr, 1, k - 1)
                              r == ParseItem([key |-> t.key, val |-> NULL],
                                             trailer, parse.chall,
                                             parse.challenges, sess.handlers)
                              grew == Len(r.list) > Len(parse.challenges)
                          IN  parse' =
                                [base EXCEPT
                                   !.chall = r.cur,
                                   !.challenges = r.list,
                                   !.claimed = IF grew THEN "yes" ELSE "no",
                                   !.stamps =
                                      IF grew
                                      THEN SubSeq(@, 1, r.cur - 1)
                                           \o <<Len(@) + 1>>
                                           \o SubSeq(@, r.cur, Len(@))
                                      ELSE @,
                                   !.pnt = IF ~r.took THEN @
                                           ELSE IF k = 0 THEN <<>>
                                           ELSE SubSeq(@, k + 1, Len(@)),
                                   !.pc = IF r.took /\ k = 0 THEN "done"
                                          ELSE @]
                ELSE IF parse.chall = 0
                THEN parse' = base
                ELSE IF t.key = NULL
                THEN parse' = [base EXCEPT !.pc = "crash"]
                ELSE LET r == ParseItem([key |-> t.key, val |-> v], NULL,
                                        parse.chall, parse.challenges,
                                        sess.handlers)
                     IN  parse' = [base EXCEPT
                                     !.val = ne_shave(v, {"\"", "'"}),
                                     !.challenges = r.list]
    /\ UNCHANGED <<role, https, ahs_set, sess, req, ret, tried, env, reg_log,
                   rdig_hist, sends, accepted, tok_hist, nn_hist>>

\* one turn of the loop of verify_digest_response.  pc "crash" is
\* ne_shave() on a NULL val or ne_strcasecmp() on a NULL key; an
\* uninitialised val is NULL or points at some text.
InfoLoop ==
    /\ parse.pc = "loop"
    /\ parse.ischall = 0
    /\ LET t == tokenize(parse.pnt, parse.key, parse.val, parse.sep, 0)
           base == [parse EXCEPT !.hdr0 = parse.pnt, !.tok = t,
                                 !.calls = @ + 1,
                                 !.pnt = t.hdr, !.key = t.key,
                                 !.val = t.value, !.sep = t.sep]
       IN  IF t.ret # 0
           THEN parse' = [base EXCEPT !.pc = "done"]
           ELSE \E v \in (IF t.value = <<"uninit">> THEN {NULL, <<"?">>}
                          ELSE {t.value}) :
                IF v = NULL \/ t.key = NULL
                THEN parse' = [base EXCEPT !.pc = "crash"]
                ELSE parse' = [base EXCEPT
                                 !.val = ne_shave(v, {"\""}),
                                 !.loc = ParseInfo(<<[key |-> t.key,
                                                      val |-> v]>>, 1, @)]
    /\ UNCHANGED <<role, https, ahs_set, sess, req, ret, tried, env, reg_log,
                   rdig_hist, sends, accepted, tok_hist, nn_hist>>

NextParse ==
    \/ ChallengeLoop
    \/ InfoLoop

SpecParse == InitParse /\ [][NextParse]_vars

\* C24: whenever a call of tokenize has returned, 1 was returned only for a
\* buffer at its end, -1 only for a buffer whose first character other
\* than white space is '=', and 0 only with a key that is not NULL and, in
\* param mode, a value that points at text of the buffer.
C24_TokenizeContract ==
    parse.calls > 0 =>
        /\ parse.tok.ret = 1 => parse.hdr0 = <<>>
        /\ parse.tok.ret = 0 - 1 =>
              \E j \in 1..Len(parse.hdr0) :
                 /\ parse.hdr0[j] = "="
                 /\ \A i \in 1..(j - 1) :
                       parse.hdr0[i] \in {" ", "\r", "\n", "\t"}
        /\ parse.tok.ret = 0 =>
              /\ parse.tok.key # NULL
              /\ parse.ischall = 0 =>
                    parse.tok.value \notin {NULL, <<"uninit">>}

\* C21: at every point of the parse loop the challenge list is in
\* non-increasing order of strength, and of two challenges of equal
\* strength the one inserted earlier comes first.
C21_SortedStable ==
    \A i, j \in 1..Len(parse.challenges) :
       i < j =>
          LET si == protocols[parse.challenges[i].protocol].strength
              sj == protocols[parse.challenges[j].protocol].strength
          IN  /\ si >= sj
              /\ si = sj => parse.stamps[i] < parse.stamps[j]

\* two challenges of one strength in the list, and a stronger one inserted
\* after both
C21_Witness ==
    \E i, j, k \in 1..Len(parse.challenges) :
       /\ k < i /\ i < j
       /\ parse.challenges[i].protocol = parse.challenges[j].protocol
       /\ parse.challenges[i] # parse.challenges[j]
       /\ parse.stamps[k] > parse.stamps[j]

\* a turn of the challenge loop in which tokenize returned a key=value pair
PairTurn ==
    /\ parse.ischall = 1
    /\ parse'.calls > 0
    /\ parse' # parse
    /\ parse'.tok.ret = 0
    /\ parse'.tok.key # NULL
    /\ parse'.tok.value \notin {NULL, <<"uninit">>}

\* C25: a key=value pair of a challenge header changes no challenge but the
\* one inserted last, and that one only when the last scheme token was
\* claimed by a handler; then it is applied to that challenge.  The list
\* itself neither grows nor shrinks.
C25_PairsToLatestClaimed ==
    [][PairTurn =>
         /\ Len(parse'.challenges) = Len(parse.challenges)
         /\ \A i \in 1..Len(parse.challenges) :
               IF parse.claimed = "yes" /\ parse.stamps[i] = Len(parse.stamps)
               THEN parse'.challenges[i] =
                       ApplyParam(parse.challenges[i], parse'.tok.key,
                                  parse'.tok.value)
               ELSE parse'.challenges[i] = parse.challenges[i]]_vars

\* a qop pair was read after a scheme no handler admits, while a challenge
\* without qop is in the list
C25_Witness ==
    /\ parse.ischall = 1
    /\ parse.tok.ret = 0
    /\ parse.tok.value \notin {NULL, <<"uninit">>}
    /\ StrCaseEq(parse.tok.key, kQop)
    /\ parse.claimed = "no"
    /\ \E i \in 1..Len(parse.challenges) : ~parse.challenges[i].qop_auth

\* C29: whenever the Basic or the Digest acceptor has returned after it
\* invoked the credential callback, its password buffer is zeroed.
C29_PasswordZeroed ==
    \A i \in 1..Len(tried) :
       (/\ tried[i].called
        /\ protocols[tried[i].protocol].id \in {"BASIC", "DIGEST"})
         => tried[i].pwbuf = "zeroed"

\* callbacks cbA and cbB return non-zero for every attempt number from
\* CredTries on.
\* C31 as stated: post-send returns NE_RETRY at most CredTries times for
\* one request, whatever Basic and Digest challenges the responses carry.
C31_BoundedRetries ==
    req.retries <= CredTries

\* C31: post-send returns NE_RETRY at most CredTries times for one request
\* as long as no response to it carried a Digest challenge with stale=true.
C31_BoundedRetriesNonStale ==
    ~req.stale => req.retries <= CredTries

\* the request was retried CredTries times, was challenged once more
\* without stale=true and ended with the role's fail code
C31_Witness ==
    /\ req.pc = "done"
    /\ ~req.stale
    /\ req.retries = CredTries
    /\ req.attempt = CredTries + 1
    /\ ret = spec_of(role).fail_code

====
